---- MODULE Spec2Model ----
(***************************************************************************)
(* tyk-proxy: the access-control pipeline (bearer extraction, JWT          *)
(* verification, path scope, token-record lookup, fixed-window rate        *)
(* limiting) in front of a Redis shared by every gateway instance.         *)
(*                                                                         *)
(* Strings are sequences of one-character strings.  Times are integers in  *)
(* milliseconds since the Unix epoch of the model.                         *)
(***************************************************************************)
EXTENDS Integers, Sequences, FiniteSets, TLC

(***************************************************************************)
(* Bounds of the model.                                                    *)
(***************************************************************************)
\* the clock advances MaxTicks times
MaxTicks == 1
\* the requests of one API key that clients send in one window
MaxCount == 2
\* a client of the limiter makes up to MaxCalls calls, with a limit up to MaxLimit
MaxCalls == 4
MaxLimit == 3
\* paths and route patterns have up to MaxStr characters
MaxStr == 2
\* for the counter store alone the clock advances MaxHalfTicks times, by half a
\* second
MaxHalfTicks == 4

(***************************************************************************)
(* Program constants.                                                      *)
(***************************************************************************)
StatusOK == 200
StatusUnauthorized == 401
StatusForbidden == 403
StatusTooManyRequests == 429
StatusInternalServerError == 500
StatusServiceUnavailable == 503
\* time.Second and time.Minute in milliseconds
Second == 1000
Minute == 60 * Second
\* the buffer Incr adds to the window for the counter's TTL
TTLBufferMs == 1000
\* the clock advances in steps of one second
Tick == 1 * Second

(***************************************************************************)
(* strings                                                                 *)
(***************************************************************************)
Digits == <<"0", "1", "2", "3", "4", "5", "6", "7", "8", "9">>

IsSpace(c) == c \in {" ", "\t", "\n", "\r"}

RECURSIVE TrimLeft(_)
TrimLeft(s) ==
    IF s # <<>> /\ IsSpace(Head(s)) THEN TrimLeft(Tail(s)) ELSE s

RECURSIVE TrimRight(_)
TrimRight(s) ==
    IF s # <<>> /\ IsSpace(s[Len(s)]) THEN TrimRight(SubSeq(s, 1, Len(s) - 1)) ELSE s

\* strings.TrimSpace
TrimSpace(s) == TrimRight(TrimLeft(s))

\* strings.HasPrefix
HasPrefix(s, p) == Len(s) >= Len(p) /\ SubSeq(s, 1, Len(p)) = p

\* strings.HasSuffix
HasSuffix(s, p) == Len(s) >= Len(p) /\ SubSeq(s, Len(s) - Len(p) + 1, Len(s)) = p

\* strings.TrimSuffix
TrimSuffix(s, p) == IF HasSuffix(s, p) THEN SubSeq(s, 1, Len(s) - Len(p)) ELSE s

\* index of the first sep in s, 0 when there is none
IndexOf(s, sep) ==
    IF \E i \in 1..Len(s) : s[i] = sep
    THEN CHOOSE i \in 1..Len(s) : s[i] = sep /\ \A j \in 1..(i - 1) : s[j] # sep
    ELSE 0

\* strings.SplitN(s, sep, 2) for a one-character sep
SplitN2(s, sep) ==
    LET i == IndexOf(s, sep)
    IN IF i = 0 THEN <<s>> ELSE <<SubSeq(s, 1, i - 1), SubSeq(s, i + 1, Len(s))>>

ToLower(c) ==
    CASE c = "B" -> "b" [] c = "E" -> "e" [] c = "A" -> "a" [] c = "R" -> "r"
      [] c = "T" -> "t" [] c = "O" -> "o" [] c = "K" -> "k" [] c = "N" -> "n"
      [] OTHER -> c

\* strings.EqualFold
EqualFold(s, t) ==
    Len(s) = Len(t) /\ \A i \in 1..Len(s) : ToLower(s[i]) = ToLower(t[i])

RECURSIVE Itoa(_)
\* strconv.Itoa / fmt %d
Itoa(n) ==
    IF n < 0 THEN <<"-">> \o Itoa(0 - n)
    ELSE IF n < 10 THEN <<Digits[n + 1]>>
    ELSE Itoa(n \div 10) \o <<Digits[(n % 10) + 1]>>

IsDigit(c) == \E d \in 1..10 : Digits[d] = c

DigitVal(c) == (CHOOSE d \in 1..10 : Digits[d] = c) - 1

RECURSIVE AtoiDigits(_)
AtoiDigits(s) ==
    IF s = <<>> THEN 0 ELSE 10 * AtoiDigits(SubSeq(s, 1, Len(s) - 1)) + DigitVal(s[Len(s)])

\* strconv.Atoi: [ok, n]
Atoi(s) ==
    LET neg == s # <<>> /\ Head(s) = "-"
        body == IF s # <<>> /\ Head(s) \in {"-", "+"} THEN Tail(s) ELSE s
    IN IF body = <<>> \/ \E i \in 1..Len(body) : ~IsDigit(body[i])
       THEN [ok |-> FALSE, n |-> 0]
       ELSE [ok |-> TRUE, n |-> IF neg THEN 0 - AtoiDigits(body) ELSE AtoiDigits(body)]

\* t.UTC().Format(time.RFC3339): whole seconds, the fraction is dropped
FormatRFC3339(t) == Itoa(t \div Second) \o <<"Z">>

\* time.Parse(time.RFC3339, s): [ok, t]
ParseRFC3339(s) ==
    IF s # <<>> /\ s[Len(s)] = "Z" /\ Atoi(SubSeq(s, 1, Len(s) - 1)).ok
       /\ Atoi(SubSeq(s, 1, Len(s) - 1)).n >= 0
    THEN [ok |-> TRUE, t |-> Atoi(SubSeq(s, 1, Len(s) - 1)).n * Second]
    ELSE [ok |-> FALSE, t |-> 0]

(***************************************************************************)
(* time                                                                    *)
(***************************************************************************)
\* time.Time.Unix(): whole seconds
Unix(t) == t \div Second

\* a time.Duration (ms) in whole seconds: int64(window.Seconds())
DurationSeconds(d) == d \div Second

\* windowStart leaving the window out: the Unix second of t
windowStartOfSecond(t, w) == Unix(t)

\* windowStart(t, window), as the Unix second it returns
windowStart(t, w) ==
    LET sec == DurationSeconds(w)
    IN IF sec <= 0 THEN Unix(t) ELSE (Unix(t) \div sec) * sec

(***************************************************************************)
(* Redis: one keyspace shared by the token records and the rate counters.  *)
(* Every entry is [kind, h, n, exp]: a hash with fields h or a string      *)
(* holding the integer n; exp is the absolute expiry in ms, NoExpiry when  *)
(* the key has no TTL.  A field that is absent reads as the empty string.  *)
(***************************************************************************)
NoExpiry == 0 - 1

HashFields == {"api_key", "rate_limit", "expires_at", "allowed_routes"}

NoFields == [f \in HashFields |-> <<>>]

Exists(db, k) == k \in DOMAIN db

Put(db, k, e) == [x \in (DOMAIN db) \cup {k} |-> IF x = k THEN e ELSE db[x]]

\* DEL key
Del(db, k) == [x \in (DOMAIN db) \ {k} |-> db[x]]

\* HGETALL key: the fields, none for a missing key
HGetAll(db, k) == IF Exists(db, k) /\ db[k].kind = "hash" THEN db[k].h ELSE NoFields

\* number of fields HGETALL returned: len(m)
FieldCount(m) == Cardinality({f \in HashFields : m[f] # <<>>})

\* HSET key field value ...: keeps the TTL of an existing key
HSet(db, k, fields) ==
    Put(db, k, [kind |-> "hash", h |-> fields, n |-> 0,
                exp |-> IF Exists(db, k) THEN db[k].exp ELSE NoExpiry])

\* EXPIREAT key unix-seconds: a time that is not in the future deletes the key
ExpireAt(db, k, at, t) ==
    IF ~Exists(db, k) THEN db
    ELSE IF Unix(at) * Second <= t THEN Del(db, k)
    ELSE Put(db, k, [db[k] EXCEPT !.exp = Unix(at) * Second])

\* INCR key: [db, c]
INCR(db, k) ==
    LET c == IF Exists(db, k) THEN db[k].n + 1 ELSE 1
    IN [db |-> Put(db, k, [kind |-> "string", h |-> NoFields, n |-> c,
                            exp |-> IF Exists(db, k) THEN db[k].exp ELSE NoExpiry]),
        c |-> c]

\* PEXPIRE key milliseconds
PEXPIRE(db, k, ttl, t) ==
    IF ~Exists(db, k) THEN db
    ELSE IF ttl <= 0 THEN Del(db, k)
    ELSE Put(db, k, [db[k] EXCEPT !.exp = t + ttl])

\* what the server drops when its clock reads t
Purge(db, t) ==
    [x \in {k \in DOMAIN db : db[k].exp = NoExpiry \/ db[k].exp > t} |-> db[x]]

(***************************************************************************)
(* ratelimit/store: the fixed-window counter store                         *)
(***************************************************************************)
\* rs.NewStore(rd, rs.Options{Prefix: "req_limit:"})
CounterPrefix == <<"r", "e", "q", "_", "l", "i", "m", "i", "t", ":">>

\* counterKey leaving the API key out
counterKeyShared(key, w, t) == CounterPrefix \o Itoa(windowStart(t, w))

\* Store.counterKey
counterKey(key, w, t) == CounterPrefix \o key \o <<":">> \o Itoa(windowStart(t, w))

\* the script without its PEXPIRE
incrScriptNoExpire(db, k, ttl, t) == INCR(db, k)

\* the script answering from a read, an increment of an existing counter lost
incrScriptLostUpdate(db, k, ttl, t) ==
    LET r == INCR(db, k)
    IN IF r.c = 1 THEN [db |-> PEXPIRE(r.db, k, ttl, t), c |-> r.c]
       ELSE [db |-> db, c |-> r.c]

\* the script setting the expiry with every increment
incrScriptRenew(db, k, ttl, t) ==
    LET r == INCR(db, k)
    IN [db |-> PEXPIRE(r.db, k, ttl, t), c |-> r.c]

\* the script returning the count it found
incrScriptPreCount(db, k, ttl, t) ==
    LET r == INCR(db, k)
    IN IF r.c = 1 THEN [db |-> PEXPIRE(r.db, k, ttl, t), c |-> r.c - 1]
       ELSE [db |-> r.db, c |-> r.c - 1]

\* the Lua script: INCR, and PEXPIRE when the counter was created; one atomic step

incrScript(db, k, ttl, t) ==
    LET r == INCR(db, k)
    IN IF r.c = 1 THEN [db |-> PEXPIRE(r.db, k, ttl, t), c |-> r.c] ELSE r

\* how a call to Redis may go: it succeeds; it fails before the server ran the
\* command or after it (the reply did not arrive), because the server cannot be
\* reached or because the context of the caller was cancelled or timed out
Failures == {"none", "before", "after", "canceledBefore", "canceledAfter"}

\* the ways a call that only reads may go: when it failed makes no difference
ReadFailures == {"none", "before", "canceledBefore"}

\* the server ran the command
ServerRan(fail) == fail \in {"none", "after", "canceledAfter"}

\* the error the go-redis client returns to the caller
CallErr(fail) ==
    CASE fail = "none" -> ""
      [] fail \in {"before", "after"} -> "redis unavailable"
      [] OTHER -> "context canceled"

\* Incr giving the counter half the window to live
IncrHalfTTL(db, key, w, t, fail) ==
    IF w <= 0 THEN [db |-> db, v |-> 0, err |-> "store: window must be > 0"]
    ELSE IF ~ServerRan(fail) THEN [db |-> db, v |-> 0, err |-> CallErr(fail)]
    ELSE LET r == incrScript(db, counterKey(key, w, t), w \div 2, t)
         IN IF fail # "none" THEN [db |-> r.db, v |-> 0, err |-> CallErr(fail)]
            ELSE [db |-> r.db, v |-> r.c, err |-> ""]

\* Store.Incr: [db, v, err]
Incr(db, key, w, t, fail) ==
    IF w <= 0 THEN [db |-> db, v |-> 0, err |-> "store: window must be > 0"]
    ELSE IF ~ServerRan(fail) THEN [db |-> db, v |-> 0, err |-> CallErr(fail)]
    ELSE LET r == incrScript(db, counterKey(key, w, t), w + TTLBufferMs, t)
         IN IF fail # "none" THEN [db |-> r.db, v |-> 0, err |-> CallErr(fail)]
            ELSE [db |-> r.db, v |-> r.c, err |-> ""]

(***************************************************************************)
(* ratelimit/service: the rate limiter                                     *)
(***************************************************************************)
\* NewRateLimitWithOptions taking the window as it is given
NewRateLimitWithOptionsAsGiven(w) == w

\* NewRateLimitWithOptions: the window of the limiter
NewRateLimitWithOptions(w) == IF w <= 0 THEN Minute ELSE w

\* the decision of Allow
WithinLimitStrict(n, limit) == n < limit

\* the decision of Allow letting one more through
WithinLimitLoose(n, limit) == n <= limit + 1

WithinLimit(n, limit) == n <= limit

\* Allow calling the store before it looks at its arguments
AllowCountsFirst(db, w, key, limit, t, fail) ==
    LET r == Incr(db, key, w, t, fail)
    IN IF key = <<>>
       THEN [db |-> r.db, allowed |-> FALSE, err |-> "rate limit: empty key", cause |-> "",
             incr |-> FALSE]
       ELSE IF limit <= 0
       THEN [db |-> r.db, allowed |-> FALSE, err |-> "rate limit: limit must be > 0",
             cause |-> "", incr |-> FALSE]
       ELSE IF r.err # ""
       THEN [db |-> r.db, allowed |-> FALSE,
             err |-> "rate limit: failed to increment counter", cause |-> r.err,
             incr |-> TRUE]
       ELSE [db |-> r.db, allowed |-> WithinLimit(r.v, limit), err |-> "",
             cause |-> "", incr |-> TRUE]

\* Allow reporting a failure of the store as a denial
AllowErrAsDenied(db, w, key, limit, t, fail) ==
    IF key = <<>>
    THEN [db |-> db, allowed |-> FALSE, err |-> "rate limit: empty key", cause |-> "",
          incr |-> FALSE]
    ELSE IF limit <= 0
    THEN [db |-> db, allowed |-> FALSE, err |-> "rate limit: limit must be > 0",
          cause |-> "", incr |-> FALSE]
    ELSE LET r == Incr(db, key, w, t, fail)
         IN [db |-> r.db, allowed |-> r.err = "" /\ WithinLimit(r.v, limit), err |-> "",
             cause |-> "", incr |-> TRUE]

\* Allow giving a denied call its increment back
AllowRefundsDenied(db, w, key, limit, t, fail) ==
    IF key = <<>>
    THEN [db |-> db, allowed |-> FALSE, err |-> "rate limit: empty key", cause |-> "",
          incr |-> FALSE]
    ELSE IF limit <= 0
    THEN [db |-> db, allowed |-> FALSE, err |-> "rate limit: limit must be > 0",
          cause |-> "", incr |-> FALSE]
    ELSE LET r == Incr(db, key, w, t, fail)
             ck == counterKey(key, w, t)
         IN IF r.err # ""
            THEN [db |-> r.db, allowed |-> FALSE,
                  err |-> "rate limit: failed to increment counter", cause |-> r.err,
                  incr |-> TRUE]
            ELSE IF WithinLimit(r.v, limit)
            THEN [db |-> r.db, allowed |-> TRUE, err |-> "", cause |-> "", incr |-> TRUE]
            ELSE [db |-> Put(r.db, ck, [r.db[ck] EXCEPT !.n = @ - 1]), allowed |-> FALSE,
                  err |-> "", cause |-> "", incr |-> TRUE]

\* RateLimit.Allow: [db, allowed, err, cause, incr]; cause: the error err wraps;
\* incr: the store was called
Allow(db, w, key, limit, t, fail) ==
    IF key = <<>>
    THEN [db |-> db, allowed |-> FALSE, err |-> "rate limit: empty key", cause |-> "",
          incr |-> FALSE]
    ELSE IF limit <= 0
    THEN [db |-> db, allowed |-> FALSE, err |-> "rate limit: limit must be > 0",
          cause |-> "", incr |-> FALSE]
    ELSE LET r == Incr(db, key, w, t, fail)
         IN IF r.err # ""
            THEN [db |-> r.db, allowed |-> FALSE,
                  err |-> "rate limit: failed to increment counter", cause |-> r.err,
                  incr |-> TRUE]
            ELSE [db |-> r.db, allowed |-> WithinLimit(r.v, limit), err |-> "",
                  cause |-> "", incr |-> TRUE]

(***************************************************************************)
(* encoding/json for a []string (no character of the model needs escaping) *)
(* A slice is [null, items]: a nil slice has null = TRUE.                  *)
(***************************************************************************)
NilSlice == [null |-> TRUE, items |-> <<>>]

Slice(items) == [null |-> FALSE, items |-> items]

RECURSIVE JoinQuoted(_)
JoinQuoted(items) ==
    IF items = <<>> THEN <<>>
    ELSE <<"\"">> \o Head(items) \o <<"\"">>
         \o (IF Len(items) > 1 THEN <<",">> ELSE <<>>) \o JoinQuoted(Tail(items))

\* json.Marshal(t.AllowedRoutes)
MarshalRoutes(r) ==
    IF r.null THEN <<"n", "u", "l", "l">> ELSE <<"[">> \o JoinQuoted(r.items) \o <<"]">>

RECURSIVE ParseElems(_)
\* the elements of a JSON array body: [ok, items]
ParseElems(s) ==
    IF s = <<>> \/ Head(s) # "\"" THEN [ok |-> FALSE, items |-> <<>>]
    ELSE LET rest == Tail(s)
             q == IndexOf(rest, "\"")
         IN IF q = 0 THEN [ok |-> FALSE, items |-> <<>>]
            ELSE LET str == SubSeq(rest, 1, q - 1)
                     after == SubSeq(rest, q + 1, Len(rest))
                 IN IF after = <<>> THEN [ok |-> TRUE, items |-> <<str>>]
                    ELSE IF Head(after) # "," THEN [ok |-> FALSE, items |-> <<>>]
                    ELSE LET more == ParseElems(Tail(after))
                         IN [ok |-> more.ok, items |-> <<str>> \o more.items]

\* json.Unmarshal([]byte(routes), &t.AllowedRoutes): [ok, routes]
UnmarshalRoutes(s) ==
    IF s = <<"n", "u", "l", "l">> THEN [ok |-> TRUE, routes |-> NilSlice]
    ELSE IF Len(s) < 2 \/ Head(s) # "[" \/ s[Len(s)] # "]"
    THEN [ok |-> FALSE, routes |-> NilSlice]
    ELSE IF Len(s) = 2 THEN [ok |-> TRUE, routes |-> Slice(<<>>)]
    ELSE LET e == ParseElems(SubSeq(s, 2, Len(s) - 1))
         IN [ok |-> e.ok, routes |-> IF e.ok THEN Slice(e.items) ELSE NilSlice]

(***************************************************************************)
(* internal/store: the token record store                                  *)
(***************************************************************************)
\* store.NewStore(rd, "token:")
TokenPrefix == <<"t", "o", "k", "e", "n", ":">>

\* the zero time.Time, before every time of the model
ZeroTime == 0 - Second

\* Token{}
ZeroToken == [APIKey |-> <<>>, RateLimit |-> 0, ExpiresAt |-> ZeroTime, AllowedRoutes |-> NilSlice]

\* Store.key
key(apiKey) == TokenPrefix \o apiKey

\* the fields Upsert and the token generator write
TokenFields(t) ==
    [f \in HashFields |->
        CASE f = "api_key" -> t.APIKey
          [] f = "rate_limit" -> Itoa(t.RateLimit)
          [] f = "expires_at" -> FormatRFC3339(t.ExpiresAt)
          [] f = "allowed_routes" -> MarshalRoutes(t.AllowedRoutes)]

\* Upsert putting a rate limit of 1 in place of one that is <= 0
UpsertCorrecting(db, t, now, fail) ==
    LET c == [t EXCEPT !.RateLimit = IF @ <= 0 THEN 1 ELSE @]
    IN IF t.APIKey = <<>> THEN [db |-> db, err |-> "ErrInvalid"]
       ELSE IF t.ExpiresAt = ZeroTime THEN [db |-> db, err |-> "ErrInvalid"]
       ELSE IF ~(t.ExpiresAt > now) THEN [db |-> db, err |-> "ErrExpired"]
       ELSE IF ~ServerRan(fail) THEN [db |-> db, err |-> CallErr(fail)]
       ELSE [db |-> ExpireAt(HSet(db, key(t.APIKey), TokenFields(c)), key(t.APIKey),
                             t.ExpiresAt, now),
             err |-> CallErr(fail)]

\* Upsert sending HSet and ExpireAt one after the other, outside a transaction:
\* a call that fails after the server ran a command has written the fields only
UpsertPipelined(db, t, now, fail) ==
    IF t.APIKey = <<>> THEN [db |-> db, err |-> "ErrInvalid"]
    ELSE IF t.RateLimit <= 0 THEN [db |-> db, err |-> "ErrInvalid"]
    ELSE IF t.ExpiresAt = ZeroTime THEN [db |-> db, err |-> "ErrInvalid"]
    ELSE IF ~(t.ExpiresAt > now) THEN [db |-> db, err |-> "ErrExpired"]
    ELSE IF ~ServerRan(fail) THEN [db |-> db, err |-> CallErr(fail)]
    ELSE IF fail # "none"
    THEN [db |-> HSet(db, key(t.APIKey), TokenFields(t)), err |-> CallErr(fail)]
    ELSE [db |-> ExpireAt(HSet(db, key(t.APIKey), TokenFields(t)), key(t.APIKey),
                          t.ExpiresAt, now),
          err |-> CallErr(fail)]

\* Upsert leaving the allowed routes out of the record
UpsertNoRoutes(db, t, now, fail) ==
    IF t.APIKey = <<>> THEN [db |-> db, err |-> "ErrInvalid"]
    ELSE IF t.RateLimit <= 0 THEN [db |-> db, err |-> "ErrInvalid"]
    ELSE IF t.ExpiresAt = ZeroTime THEN [db |-> db, err |-> "ErrInvalid"]
    ELSE IF ~(t.ExpiresAt > now) THEN [db |-> db, err |-> "ErrExpired"]
    ELSE IF ~ServerRan(fail) THEN [db |-> db, err |-> CallErr(fail)]
    ELSE [db |-> ExpireAt(HSet(db, key(t.APIKey),
                               [TokenFields(t) EXCEPT !["allowed_routes"] = <<>>]),
                          key(t.APIKey), t.ExpiresAt, now),
          err |-> CallErr(fail)]

\* Store.Upsert: [db, err]; fail: how the transaction goes
Upsert(db, t, now, fail) ==
    IF t.APIKey = <<>> THEN [db |-> db, err |-> "ErrInvalid"]
    ELSE IF t.RateLimit <= 0 THEN [db |-> db, err |-> "ErrInvalid"]
    ELSE IF t.ExpiresAt = ZeroTime THEN [db |-> db, err |-> "ErrInvalid"]
    ELSE IF ~(t.ExpiresAt > now) THEN [db |-> db, err |-> "ErrExpired"]
    ELSE IF ~ServerRan(fail) THEN [db |-> db, err |-> CallErr(fail)]
    ELSE [db |-> ExpireAt(HSet(db, key(t.APIKey), TokenFields(t)), key(t.APIKey),
                          t.ExpiresAt, now),
          err |-> CallErr(fail)]

\* decodeToken putting a limit of 1 in place of a stored limit <= 0
decodeTokenLenient(apiKey, m) ==
    LET rl == Atoi(m["rate_limit"])
        exp == ParseRFC3339(m["expires_at"])
        ar == UnmarshalRoutes(m["allowed_routes"])
        k == IF m["api_key"] # <<>> THEN m["api_key"] ELSE apiKey
    IN IF m["rate_limit"] = <<>> \/ ~rl.ok \/ m["expires_at"] = <<>> \/ ~exp.ok
       THEN [err |-> "ErrInvalid", t |-> ZeroToken]
       ELSE IF m["allowed_routes"] # <<>> /\ ~ar.ok THEN [err |-> "ErrInvalid", t |-> ZeroToken]
       ELSE [err |-> "",
             t |-> [APIKey |-> k, RateLimit |-> IF rl.n <= 0 THEN 1 ELSE rl.n,
                    ExpiresAt |-> exp.t,
                    AllowedRoutes |-> IF m["allowed_routes"] = <<>> THEN NilSlice
                                      ELSE ar.routes]]

\* decodeToken reading a missing expires_at as the zero time
decodeTokenZeroExpiry(apiKey, m) ==
    LET rl == Atoi(m["rate_limit"])
        exp == ParseRFC3339(m["expires_at"])
        ar == UnmarshalRoutes(m["allowed_routes"])
        k == IF m["api_key"] # <<>> THEN m["api_key"] ELSE apiKey
        at == IF m["expires_at"] = <<>> THEN ZeroTime ELSE exp.t
    IN IF m["rate_limit"] = <<>> THEN [err |-> "ErrInvalid", t |-> ZeroToken]
       ELSE IF ~rl.ok \/ rl.n <= 0 THEN [err |-> "ErrInvalid", t |-> ZeroToken]
       ELSE IF m["expires_at"] # <<>> /\ ~exp.ok THEN [err |-> "ErrInvalid", t |-> ZeroToken]
       ELSE IF m["allowed_routes"] # <<>> /\ ~ar.ok THEN [err |-> "ErrInvalid", t |-> ZeroToken]
       ELSE [err |-> "",
             t |-> [APIKey |-> k, RateLimit |-> rl.n, ExpiresAt |-> at,
                    AllowedRoutes |-> IF m["allowed_routes"] = <<>> THEN NilSlice
                                      ELSE ar.routes]]

\* decodeToken: [err, t]
decodeToken(apiKey, m) ==
    LET rl == Atoi(m["rate_limit"])
        exp == ParseRFC3339(m["expires_at"])
        ar == UnmarshalRoutes(m["allowed_routes"])
        k == IF m["api_key"] # <<>> THEN m["api_key"] ELSE apiKey
    IN IF m["rate_limit"] = <<>> THEN [err |-> "ErrInvalid", t |-> ZeroToken]
       ELSE IF ~rl.ok \/ rl.n <= 0 THEN [err |-> "ErrInvalid", t |-> ZeroToken]
       ELSE IF m["expires_at"] = <<>> THEN [err |-> "ErrInvalid", t |-> ZeroToken]
       ELSE IF ~exp.ok THEN [err |-> "ErrInvalid", t |-> ZeroToken]
       ELSE IF m["allowed_routes"] = <<>>
       THEN [err |-> "",
             t |-> [APIKey |-> k, RateLimit |-> rl.n, ExpiresAt |-> exp.t,
                    AllowedRoutes |-> NilSlice]]
       ELSE IF ~ar.ok THEN [err |-> "ErrInvalid", t |-> ZeroToken]
       ELSE [err |-> "",
             t |-> [APIKey |-> k, RateLimit |-> rl.n, ExpiresAt |-> exp.t,
                    AllowedRoutes |-> ar.routes]]

\* GetTokenRead taking a record for live at the instant it expires
GetTokenReadNotBefore(db, apiKey, now, fail) ==
    LET m == HGetAll(db, key(apiKey))
        d == decodeToken(apiKey, m)
    IN IF apiKey = <<>> THEN [err |-> "ErrInvalid", t |-> ZeroToken, del |-> FALSE]
       ELSE IF fail # "none" THEN [err |-> CallErr(fail), t |-> ZeroToken, del |-> FALSE]
       ELSE IF FieldCount(m) = 0 THEN [err |-> "ErrNotFound", t |-> ZeroToken, del |-> FALSE]
       ELSE IF d.err # "" THEN [err |-> d.err, t |-> ZeroToken, del |-> FALSE]
       ELSE IF ~(d.t.ExpiresAt >= now) THEN [err |-> "ErrExpired", t |-> ZeroToken, del |-> TRUE]
       ELSE [err |-> "", t |-> d.t, del |-> FALSE]

\* GetTokenRead cleaning up every record it cannot return, the undecodable too
GetTokenReadCleaning(db, apiKey, now, fail) ==
    LET m == HGetAll(db, key(apiKey))
        d == decodeToken(apiKey, m)
    IN IF apiKey = <<>> THEN [err |-> "ErrInvalid", t |-> ZeroToken, del |-> FALSE]
       ELSE IF fail # "none" THEN [err |-> CallErr(fail), t |-> ZeroToken, del |-> FALSE]
       ELSE IF FieldCount(m) = 0 THEN [err |-> "ErrNotFound", t |-> ZeroToken, del |-> FALSE]
       ELSE IF d.err # "" THEN [err |-> d.err, t |-> ZeroToken, del |-> TRUE]
       ELSE IF ~(d.t.ExpiresAt > now) THEN [err |-> "ErrExpired", t |-> ZeroToken, del |-> TRUE]
       ELSE [err |-> "", t |-> d.t, del |-> FALSE]

\* Store.GetToken up to the result of HGetAll and the expiry test: [err, t, del];
\* del: the record is expired and the best-effort Del call is still to be made
GetTokenRead(db, apiKey, now, fail) ==
    LET m == HGetAll(db, key(apiKey))
        d == decodeToken(apiKey, m)
    IN IF apiKey = <<>> THEN [err |-> "ErrInvalid", t |-> ZeroToken, del |-> FALSE]
       ELSE IF fail # "none" THEN [err |-> CallErr(fail), t |-> ZeroToken, del |-> FALSE]
       ELSE IF FieldCount(m) = 0 THEN [err |-> "ErrNotFound", t |-> ZeroToken, del |-> FALSE]
       ELSE IF d.err # "" THEN [err |-> d.err, t |-> ZeroToken, del |-> FALSE]
       ELSE IF ~(d.t.ExpiresAt > now) THEN [err |-> "ErrExpired", t |-> ZeroToken, del |-> TRUE]
       ELSE [err |-> "", t |-> d.t, del |-> FALSE]

(***************************************************************************)
(* auth: the JWT verifier.  A bearer string stands for the JWT it encodes: *)
(* [alg, signedWith, hasExp, exp, claims]; Malformed for any other string. *)
(***************************************************************************)
K1 == <<"k", "1">>
K2 == <<"k", "2">>
K3 == <<"k", "3">>
K4 == <<"k", "4">>

\* a time later than every clock reading of the model
Later == (MaxTicks + 4) * Second

\* new(Claims), and the nil *Claims
ZeroClaims ==
    [nil |-> FALSE, APIKey |-> <<>>, AllowedRoutes |-> <<>>, RateLimit |-> 0,
     hasExp |-> FALSE, exp |-> 0]

NilClaims == [ZeroClaims EXCEPT !.nil = TRUE]

MkClaims(apiKey, routes, hint, hasExp, exp) ==
    [nil |-> FALSE, APIKey |-> apiKey, AllowedRoutes |-> routes, RateLimit |-> hint,
     hasExp |-> hasExp, exp |-> exp]

Malformed == [alg |-> "", signedWith |-> "", claims |-> NilClaims]

\* the tokens in circulation
Decode(tokenString) ==
    CASE tokenString = <<"a">> ->
           [alg |-> "HS256", signedWith |-> "secret",
            claims |-> MkClaims(K1, <<>>, 7, TRUE, Later)]
      [] tokenString = <<"b">> ->
           [alg |-> "HS256", signedWith |-> "secret",
            claims |-> MkClaims(K2, <<<<"/", "a", "*">>>>, 0, TRUE, Second)]
      [] tokenString = <<"c">> ->
           [alg |-> "HS256", signedWith |-> "forged",
            claims |-> MkClaims(K1, <<>>, 7, TRUE, Later)]
      [] tokenString = <<"d">> ->
           [alg |-> "HS256", signedWith |-> "secret",
            claims |-> MkClaims(K2, <<<<" ">>, <<"/", "a", "/", "*">>, <<"/", "b">>>>, 3, TRUE, Later)]
      [] tokenString = <<"e">> ->
           [alg |-> "HS256", signedWith |-> "secret",
            claims |-> MkClaims(K3, <<<<"*">>>>, 0, TRUE, Later)]
      [] tokenString = <<"f">> ->
           [alg |-> "HS256", signedWith |-> "secret",
            claims |-> MkClaims(K4, <<>>, 0, TRUE, Later)]
      [] tokenString = <<"g">> ->
           [alg |-> "none", signedWith |-> "",
            claims |-> MkClaims(K1, <<>>, 7, TRUE, Later)]
      [] tokenString = <<"h">> ->
           [alg |-> "HS256", signedWith |-> "secret",
            claims |-> MkClaims(K1, <<>>, 7, FALSE, 0)]
      [] tokenString = <<"i">> ->
           [alg |-> "HS256", signedWith |-> "secret",
            claims |-> MkClaims(<<>>, <<>>, 7, TRUE, Later)]
      [] tokenString = <<"j">> ->
           [alg |-> "HS256", signedWith |-> "secret",
            claims |-> MkClaims(K1, <<>>, 7, TRUE, 0)]
      [] tokenString = <<"k">> ->
           [alg |-> "HS256", signedWith |-> "pubkey",
            claims |-> MkClaims(K1, <<>>, 7, TRUE, Later)]
      [] tokenString = <<"l">> ->
           [alg |-> "RS256", signedWith |-> "pubkey",
            claims |-> MkClaims(K1, <<>>, 7, TRUE, Later)]
      [] OTHER -> Malformed

\* auth.KeySet of main: the configured algorithm and secret
KeySetCfg == [ExpectedAlg |-> "HS256", DefaultKey |-> "secret"]

\* ParseWithClaims taking the token's own algorithm
ParseWithClaimsAnyAlg(ks, j, t) ==
    IF j = Malformed THEN "token is malformed"
    ELSE IF j.signedWith # ks.DefaultKey THEN "signature is invalid"
    ELSE IF ~j.claims.hasExp THEN "exp claim is required"
    ELSE IF ~(t < j.claims.exp) THEN "token is expired"
    ELSE ""

\* parser.ParseWithClaims with WithValidMethods and WithExpirationRequired: the
\* error, "" when the token is valid at time t
ParseWithClaims(ks, j, t) ==
    IF j = Malformed THEN "token is malformed"
    ELSE IF j.alg # ks.ExpectedAlg THEN "signing method is invalid"
    ELSE IF j.signedWith # ks.DefaultKey THEN "signature is invalid"
    ELSE IF ~j.claims.hasExp THEN "exp claim is required"
    ELSE IF ~(t < j.claims.exp) THEN "token is expired"
    ELSE ""

\* JWTVerifier.Parse: [err, claims]
Parse(ks, tokenString, t) ==
    LET j == Decode(tokenString)
        e == ParseWithClaims(ks, j, t)
    IN IF ks.DefaultKey = "" THEN [err |-> "no key configured", claims |-> NilClaims]
       ELSE IF ks.ExpectedAlg = ""
       THEN [err |-> "expected algorithm not configured", claims |-> NilClaims]
       ELSE IF e # "" THEN [err |-> e, claims |-> NilClaims]
       ELSE IF j.claims.APIKey = <<>>
       THEN [err |-> "missing api_key claim", claims |-> NilClaims]
       ELSE [err |-> "", claims |-> j.claims]

(***************************************************************************)
(* auth: the authorization middleware                                      *)
(***************************************************************************)
Bearer == <<"B", "e", "a", "r", "e", "r">>

\* extractBearer without the test of the scheme
extractBearerAnyScheme(v) ==
    LET tv == TrimSpace(v)
        parts == SplitN2(tv, " ")
    IN IF tv = <<>> THEN [t |-> <<>>, ok |-> FALSE]
       ELSE IF Len(parts) # 2 THEN [t |-> <<>>, ok |-> FALSE]
       ELSE [t |-> TrimSpace(parts[2]), ok |-> TrimSpace(parts[2]) # <<>>]

\* extractBearer comparing the scheme letter by letter
extractBearerCaseSensitive(v) ==
    LET tv == TrimSpace(v)
        parts == SplitN2(tv, " ")
    IN IF tv = <<>> THEN [t |-> <<>>, ok |-> FALSE]
       ELSE IF Len(parts) # 2 THEN [t |-> <<>>, ok |-> FALSE]
       ELSE IF parts[1] # Bearer THEN [t |-> <<>>, ok |-> FALSE]
       ELSE [t |-> TrimSpace(parts[2]), ok |-> TrimSpace(parts[2]) # <<>>]

\* extractBearer: [t, ok]
extractBearer(v) ==
    LET tv == TrimSpace(v)
        parts == SplitN2(tv, " ")
    IN IF tv = <<>> THEN [t |-> <<>>, ok |-> FALSE]
       ELSE IF Len(parts) # 2 THEN [t |-> <<>>, ok |-> FALSE]
       ELSE IF ~EqualFold(parts[1], Bearer) THEN [t |-> <<>>, ok |-> FALSE]
       ELSE [t |-> TrimSpace(parts[2]), ok |-> TrimSpace(parts[2]) # <<>>]

RECURSIVE matchPatternsFirstOnly(_, _)
\* the loop of isAllowedPath giving up at the first pattern that does not match
matchPatternsFirstOnly(path, patterns) ==
    IF patterns = <<>> THEN FALSE
    ELSE LET p == TrimSpace(Head(patterns))
         IN IF p = <<>> THEN matchPatternsFirstOnly(path, Tail(patterns))
            ELSE IF p = <<"*">> THEN TRUE
            ELSE IF HasSuffix(p, <<"*">>) THEN HasPrefix(path, TrimSuffix(p, <<"*">>))
            ELSE path = p

RECURSIVE matchPatterns(_, _)
\* the loop of isAllowedPath over the patterns
matchPatterns(path, patterns) ==
    IF patterns = <<>> THEN FALSE
    ELSE LET p == TrimSpace(Head(patterns))
         IN IF p = <<>> THEN matchPatterns(path, Tail(patterns))
            ELSE IF p = <<"*">> THEN TRUE
            ELSE IF HasSuffix(p, <<"*">>)
            THEN IF HasPrefix(path, TrimSuffix(p, <<"*">>)) THEN TRUE
                 ELSE matchPatterns(path, Tail(patterns))
            ELSE IF path = p THEN TRUE
            ELSE matchPatterns(path, Tail(patterns))

\* isAllowedPath
isAllowedPath(path, patterns) ==
    IF path = <<>> THEN FALSE ELSE matchPatterns(path, patterns)

\* the response and the log line of a request; status 0: nothing written yet
NoResponse == [status |-> 0, body |-> "", challenge |-> "", msg |-> "", detail |-> ""]

\* unauthorized without the WWW-Authenticate header
unauthorizedNoChallenge(msg, detail) ==
    [status |-> StatusUnauthorized, body |-> "Unauthorized",
     challenge |-> "", msg |-> msg, detail |-> detail]

\* unauthorized writing the error text to the client
unauthorizedLeaking(msg, detail) ==
    [status |-> StatusUnauthorized, body |-> IF detail # "" THEN detail ELSE "Unauthorized",
     challenge |-> "Bearer realm=\"api\"", msg |-> msg, detail |-> detail]

\* unauthorized(w, msg): msg is the log line, detail the error text appended to it
unauthorized(msg, detail) ==
    [status |-> StatusUnauthorized, body |-> "Unauthorized",
     challenge |-> "Bearer realm=\"api\"", msg |-> msg, detail |-> detail]

\* http.Error(w, body, code)
httpError(body, code) ==
    [status |-> code, body |-> body, challenge |-> "", msg |-> "", detail |-> ""]

\* the downstream handler's response
forwarded == [status |-> StatusOK, body |-> "ok", challenge |-> "", msg |-> "access allowed", detail |-> ""]

\* WithClaims(ctx, c): the value ClaimsFromContext finds in the new context
WithClaimsDropped(ctx, c) == ctx

WithClaims(ctx, c) == c

\* the requests clients send: [auth, path]
Requests ==
    { [auth |-> <<>>, path |-> <<"/", "a">>],
      [auth |-> <<"T", "o", "k", "e", "n", " ", "a">>, path |-> <<"/", "a">>],
      [auth |-> <<"B", "e", "a", "r", "e", "r", " ", "a">>, path |-> <<"/", "a">>],
      [auth |-> <<" ", "b", "e", "a", "r", "e", "r", " ", " ", "b", " ">>, path |-> <<"/", "b">>],
      [auth |-> <<"B", "e", "a", "r", "e", "r", " ", "c">>, path |-> <<"/", "a">>],
      [auth |-> <<"B", "e", "a", "r", "e", "r", " ", "d">>, path |-> <<"/", "a", "/", "1">>],
      [auth |-> <<"B", "e", "a", "r", "e", "r", " ", "e">>, path |-> <<"/", "b">>],
      [auth |-> <<"B", "e", "a", "r", "e", "r", " ", "f">>, path |-> <<"/", "a">>],
      [auth |-> <<"B", "e", "a", "r", "e", "r", " ", "h">>, path |-> <<"/", "a">>],
      [auth |-> <<"B", "e", "a", "r", "e", "r", " ", "j">>, path |-> <<"/", "a">>] }

\* extractBearer on the Authorization headers of these requests
Bearers == [v \in {in.auth : in \in Requests} |-> extractBearer(v)]

\* Handler, lines 71-82: the bearer string and its verification at time t:
\* [pass, resp, claims, verifierCalls]
Authenticate(auth, t) ==
    LET b == Bearers[auth]
        p == Parse(KeySetCfg, b.t, t)
    IN IF ~b.ok
       THEN [pass |-> FALSE, resp |-> unauthorized("missing bearer token", ""),
             claims |-> NilClaims, verifierCalls |-> 0]
       ELSE IF p.err # ""
       THEN [pass |-> FALSE, resp |-> unauthorized("invalid token: ", p.err),
             claims |-> NilClaims, verifierCalls |-> 1]
       ELSE [pass |-> TRUE, resp |-> NoResponse, claims |-> p.claims, verifierCalls |-> 1]

\* the path scope tested before the expiry
LocalChecksScopeFirst(claims, path, t) ==
    IF claims.APIKey = <<>>
    THEN [pass |-> FALSE, resp |-> unauthorized("missing api_key claim", "")]
    ELSE IF Len(claims.AllowedRoutes) > 0 /\ ~isAllowedPath(path, claims.AllowedRoutes)
    THEN [pass |-> FALSE, resp |-> httpError("Forbidden", StatusForbidden)]
    ELSE IF ~claims.hasExp \/ ~(claims.exp > t)
    THEN [pass |-> FALSE, resp |-> unauthorized("token expired", "")]
    ELSE [pass |-> TRUE, resp |-> NoResponse]

\* the expiry tested with "not before now" in place of "after now"
LocalChecksNotBefore(claims, path, t) ==
    IF claims.APIKey = <<>>
    THEN [pass |-> FALSE, resp |-> unauthorized("missing api_key claim", "")]
    ELSE IF ~claims.hasExp \/ ~(claims.exp >= t)
    THEN [pass |-> FALSE, resp |-> unauthorized("token expired", "")]
    ELSE IF Len(claims.AllowedRoutes) > 0 /\ ~isAllowedPath(path, claims.AllowedRoutes)
    THEN [pass |-> FALSE, resp |-> httpError("Forbidden", StatusForbidden)]
    ELSE [pass |-> TRUE, resp |-> NoResponse]

\* Handler, lines 86-103: API key, expiry and path scope at time t: [pass, resp]
LocalChecks(claims, path, t) ==
    IF claims.APIKey = <<>>
    THEN [pass |-> FALSE, resp |-> unauthorized("missing api_key claim", "")]
    ELSE IF ~claims.hasExp \/ ~(claims.exp > t)
    THEN [pass |-> FALSE, resp |-> unauthorized("token expired", "")]
    ELSE IF Len(claims.AllowedRoutes) > 0 /\ ~isAllowedPath(path, claims.AllowedRoutes)
    THEN [pass |-> FALSE, resp |-> httpError("Forbidden", StatusForbidden)]
    ELSE [pass |-> TRUE, resp |-> NoResponse]

\* every error of GetToken answered 503
TokenOutcome503(err, tok) ==
    IF err # ""
    THEN [pass |-> FALSE, resp |-> httpError("Service Unavailable", StatusServiceUnavailable),
          limit |-> 0]
    ELSE IF tok.RateLimit <= 0
    THEN [pass |-> FALSE, resp |-> unauthorized("token disabled", ""), limit |-> tok.RateLimit]
    ELSE [pass |-> TRUE, resp |-> NoResponse, limit |-> tok.RateLimit]

\* Handler, lines 105-118: the result of GetToken: [pass, resp, limit]
TokenOutcome(err, tok) ==
    IF err # ""
    THEN [pass |-> FALSE, resp |-> unauthorized("unknown token: ", err), limit |-> 0]
    ELSE IF tok.RateLimit <= 0
    THEN [pass |-> FALSE, resp |-> unauthorized("token disabled", ""), limit |-> tok.RateLimit]
    ELSE [pass |-> TRUE, resp |-> NoResponse, limit |-> tok.RateLimit]

\* an error of the limiter taken for a denial
LimitOutcomeErrAsDenied(allowed, err) ==
    IF ~allowed
    THEN [pass |-> FALSE, resp |-> httpError("Too Many Requests", StatusTooManyRequests)]
    ELSE [pass |-> TRUE, resp |-> NoResponse]

\* Handler, lines 120-129: the answer of the limiter: [pass, resp]
LimitOutcome(allowed, err) ==
    IF err # ""
    THEN [pass |-> FALSE, resp |-> httpError("Rate limiter error", StatusInternalServerError)]
    ELSE IF ~allowed
    THEN [pass |-> FALSE, resp |-> httpError("Too Many Requests", StatusTooManyRequests)]
    ELSE [pass |-> TRUE, resp |-> NoResponse]

(***************************************************************************)
(* The system: the gateway instances against one Redis and one clock.      *)
(***************************************************************************)
VARIABLES
    now,      \* the clock, ms
    redis,    \* the keyspace of the Redis server
    window,   \* RateLimit.window
    reqs,     \* the requests in flight, one per slot
    tally     \* per counter key of the current window, the requests forwarded,
              \* those answered 429 and whether one was answered 500
VARIABLES
    trace     \* the calls a direct caller of one component made, with their results

vars == <<now, redis, window, reqs, tally, trace>>

\* two gateway instances share the Redis; each serves one request at a time
Slots == {"gw1", "gw2"}

\* a slot no request has used yet.  verifierCalls, storeCalls, limiterCalls and
\* nextCalls count the calls of the request to the collaborators; ctxClaims is
\* what the downstream handler finds in the request context; storeErr,
\* limiterErr and allowed are what GetToken and Allow returned to it,
\* limiterCause the error limiterErr wraps
Idle ==
    [pc |-> "idle", auth |-> <<>>, path |-> <<>>, claims |-> NilClaims, limit |-> 0,
     resp |-> NoResponse, verifierCalls |-> 0, storeCalls |-> 0, limiterCalls |-> 0,
     nextCalls |-> 0, ctxClaims |-> NilClaims,
     storeErr |-> "", limiterErr |-> "", limiterCause |-> "", allowed |-> FALSE]

\* the records provisioned before the gateway starts: K1 by Upsert; K2 disabled
\* and K4 out of date, both written by hand without a TTL; K3 has none
InitialRedis ==
    LET e == [x \in {} |-> 0]
        r1 == Upsert(e, [APIKey |-> K1, RateLimit |-> 1, ExpiresAt |-> Later,
                         AllowedRoutes |-> Slice(<<<<"/", "b">>>>)], 0, "none").db
        r2 == HSet(r1, key(K2), TokenFields([APIKey |-> K2, RateLimit |-> 0,
                         ExpiresAt |-> Later, AllowedRoutes |-> NilSlice]))
    IN HSet(r2, key(K4), TokenFields([APIKey |-> K4, RateLimit |-> 1,
                         ExpiresAt |-> 0, AllowedRoutes |-> NilSlice]))

\* rate.NewRateLimitWithOptions(rateStore, Options{Window: time.Second})
OptionsWindow == 1 * Second

Init ==
    /\ now = 0
    /\ redis = InitialRedis
    /\ window = NewRateLimitWithOptions(OptionsWindow)
    /\ reqs = [r \in Slots |-> Idle]
    /\ tally = [x \in {} |-> 0]
    /\ trace = <<>>

\* the response is written and the handler returns
Finish(q, resp) == [q EXCEPT !.pc = "done", !.resp = resp]

\* the handler of slot r is between its first and its last line
InFlight(r) == reqs[r].pc \notin {"idle", "done"}

\* the rate counter of apiKey in the window of t; 0 when there is none
CounterOf(db, apiKey, t) ==
    LET ck == counterKey(apiKey, window, t)
    IN IF Exists(db, ck) THEN db[ck].n ELSE 0

\* clients send a request of apiKey while the counter of its window, with the
\* requests of the key that are in flight on the other slots, is below MaxCount
Admitted(r, apiKey) ==
    CounterOf(redis, apiKey, now)
      + Cardinality({s \in Slots \ {r} : InFlight(s) /\ reqs[s].claims.APIKey = apiKey})
      < MaxCount

\* a request arrives on slot r; Handler lines 69-84
HandlerVerify(r) ==
    /\ reqs[r].pc \in {"idle", "done"}
    /\ \E in \in Requests :
         LET a == Authenticate(in.auth, now)
             q == [Idle EXCEPT !.auth = in.auth, !.path = in.path,
                               !.verifierCalls = a.verifierCalls]
         IN /\ a.pass => Admitted(r, a.claims.APIKey)
            /\ reqs' = [reqs EXCEPT ![r] =
                   IF a.pass THEN [q EXCEPT !.pc = "checks", !.claims = a.claims]
                   ELSE Finish(q, a.resp)]
    /\ UNCHANGED <<now, redis, window, tally, trace>>

\* HandlerChecks taking a slot of the rate limit before it checks the claims
HandlerChecksCounting(r) ==
    /\ reqs[r].pc = "checks"
    /\ LET c == LocalChecks(reqs[r].claims, reqs[r].path, now)
       IN reqs' = [reqs EXCEPT ![r] =
              IF c.pass THEN [@ EXCEPT !.pc = "store"] ELSE Finish(@, c.resp)]
    /\ redis' = Allow(redis, window, reqs[r].claims.APIKey, 1, now, "none").db
    /\ UNCHANGED <<now, window, tally, trace>>

\* Handler lines 86-103
HandlerChecks(r) ==
    /\ reqs[r].pc = "checks"
    /\ LET c == LocalChecks(reqs[r].claims, reqs[r].path, now)
       IN reqs' = [reqs EXCEPT ![r] =
              IF c.pass THEN [@ EXCEPT !.pc = "store"] ELSE Finish(@, c.resp)]
    /\ UNCHANGED <<now, redis, window, tally, trace>>

\* HandlerGetToken calling GetToken again after a failed call
HandlerGetTokenRetry(r) ==
    /\ reqs[r].pc = "store"
    /\ \E fail \in ReadFailures :
         LET g == GetTokenRead(redis, reqs[r].claims.APIKey, now, fail)
             o == TokenOutcome(g.err, g.t)
             q == [reqs[r] EXCEPT !.storeCalls = @ + 1, !.storeErr = g.err]
         IN /\ fail # "none" => reqs[r].storeCalls < 2
            /\ reqs' = [reqs EXCEPT ![r] =
                   IF fail # "none" THEN q
                   ELSE IF g.del THEN [q EXCEPT !.pc = "del"]
                   ELSE IF o.pass THEN [q EXCEPT !.pc = "limiter", !.limit = o.limit]
                   ELSE Finish(q, o.resp)]
    /\ UNCHANGED <<now, redis, window, tally, trace>>

\* Handler lines 105-118 with GetToken up to its expiry test
HandlerGetToken(r) ==
    /\ reqs[r].pc = "store"
    /\ \E fail \in ReadFailures :
         LET g == GetTokenRead(redis, reqs[r].claims.APIKey, now, fail)
             o == TokenOutcome(g.err, g.t)
             q == [reqs[r] EXCEPT !.storeCalls = @ + 1, !.storeErr = g.err]
         IN reqs' = [reqs EXCEPT ![r] =
                IF g.del THEN [q EXCEPT !.pc = "del"]
                ELSE IF o.pass THEN [q EXCEPT !.pc = "limiter", !.limit = o.limit]
                ELSE Finish(q, o.resp)]
    /\ UNCHANGED <<now, redis, window, tally, trace>>

\* GetToken lines 131-135: the best-effort Del of the expired record, then
\* Handler lines 106-110
HandlerGetTokenDel(r) ==
    /\ reqs[r].pc = "del"
    /\ \E down \in BOOLEAN :
         redis' = IF down THEN redis ELSE Del(redis, key(reqs[r].claims.APIKey))
    /\ reqs' = [reqs EXCEPT ![r] = Finish(@, TokenOutcome("ErrExpired", ZeroToken).resp)]
    /\ UNCHANGED <<now, window, tally, trace>>

\* per counter key, the requests forwarded, the requests answered 429 and
\* whether one was answered 500
Count(tl, k, resp) ==
    LET old == IF k \in DOMAIN tl THEN tl[k] ELSE [accepted |-> 0, denied |-> 0, failed |-> FALSE]
        new == IF resp = forwarded THEN [old EXCEPT !.accepted = @ + 1]
               ELSE IF resp.status = StatusTooManyRequests THEN [old EXCEPT !.denied = @ + 1]
               ELSE [old EXCEPT !.failed = TRUE]
    IN [x \in (DOMAIN tl) \cup {k} |-> IF x = k THEN new ELSE tl[x]]

\* Handler lines 120-138: Allow, then the downstream handler
HandlerAllow(r) ==
    /\ reqs[r].pc = "limiter"
    /\ \E fail \in Failures :
         LET a == Allow(redis, window, reqs[r].claims.APIKey, reqs[r].limit, now, fail)
             o == LimitOutcome(a.allowed, a.err)
             q == [reqs[r] EXCEPT !.limiterCalls = @ + 1, !.limiterErr = a.err,
                                  !.limiterCause = a.cause, !.allowed = a.allowed]
             f == IF o.pass
                  THEN Finish([q EXCEPT !.nextCalls = @ + 1,
                                        !.ctxClaims = WithClaims(q.ctxClaims, q.claims)],
                              forwarded)
                  ELSE Finish(q, o.resp)
         IN /\ redis' = a.db
            /\ tally' = Count(tally, counterKey(reqs[r].claims.APIKey, window, now), f.resp)
            /\ reqs' = [reqs EXCEPT ![r] = f]
    /\ UNCHANGED <<now, window, trace>>

\* the counter keys requests map to at time t
CurrentKeys(t) == {counterKey(k, window, t) : k \in {K1, K2, K3, K4}}

\* the clock advances; the Redis server drops what has expired, the tally of a
\* window no request can fall in any more is closed, and the handlers that have
\* returned are free again (the requests in flight stay where they are)
Advance ==
    /\ now < MaxTicks * Tick
    /\ now' = now + Tick
    /\ redis' = Purge(redis, now + Tick)
    /\ tally' = [k \in (DOMAIN tally) \cap CurrentKeys(now + Tick) |-> tally[k]]
    /\ reqs' = [r \in Slots |-> IF reqs[r].pc = "done" THEN Idle ELSE reqs[r]]
    /\ UNCHANGED <<window, trace>>

Next ==
    \/ \E r \in Slots : HandlerVerify(r)
    \/ \E r \in Slots : HandlerChecks(r)
    \/ \E r \in Slots : HandlerGetToken(r)
    \/ \E r \in Slots : HandlerGetTokenDel(r)
    \/ \E r \in Slots : HandlerAllow(r)
    \/ Advance

Spec == Init /\ [][Next]_vars

(***************************************************************************)
(* The rate limiter alone: a client calls Allow over an empty Redis, with  *)
(* one limit throughout.                                                   *)
(***************************************************************************)
InitLimiter ==
    /\ now = 0
    /\ redis = [x \in {} |-> 0]
    /\ window = NewRateLimitWithOptions(OptionsWindow)
    /\ reqs = [r \in Slots |-> Idle]
    /\ tally = [x \in {} |-> 0]
    /\ trace = <<>>

\* rl.Allow(ctx, k, limit); counted: the call incremented the counter
CallAllow ==
    /\ Len(trace) < MaxCalls
    /\ \E k \in {K1, K2}, limit \in 1..MaxLimit, fail \in Failures :
         /\ trace # <<>> => limit = trace[1].limit
         /\ LET a == Allow(redis, window, k, limit, now, fail)
            IN /\ redis' = a.db
               /\ trace' = Append(trace,
                     [apiKey |-> k, limit |-> limit, ws |-> windowStart(now, window),
                      allowed |-> a.allowed, err |-> a.err, counted |-> a.db # redis])
    /\ UNCHANGED <<now, window, reqs, tally>>

NextLimiter ==
    \/ CallAllow
    \/ Advance

SpecLimiter == InitLimiter /\ [][NextLimiter]_vars

(***************************************************************************)
(* The path scope check alone: Handler lines 97-103 on the claims of a     *)
(* verified token, for every path and every list of up to two patterns.    *)
(***************************************************************************)
\* the characters of paths and patterns
ScopeChars == {"/", "a", "*", " "}

\* the strings of up to n characters
Strings(chars, n) == UNION {[1..k -> chars] : k \in 0..n}

PatternLists ==
    {<<>>} \cup {<<p>> : p \in Strings(ScopeChars, MaxStr)}
           \cup {<<p, q>> : p \in Strings(ScopeChars, MaxStr), q \in Strings(ScopeChars, MaxStr)}

InitScope ==
    /\ now = 0
    /\ redis = [x \in {} |-> 0]
    /\ window = NewRateLimitWithOptions(OptionsWindow)
    /\ reqs = [r \in Slots |-> Idle]
    /\ tally = [x \in {} |-> 0]
    /\ trace = <<>>

\* Handler lines 97-103 for a request of the path with the patterns as the
\* allowed routes of its claims
CallIsAllowedPath ==
    /\ trace = <<>>
    /\ \E path \in Strings(ScopeChars, MaxStr), patterns \in PatternLists :
         trace' = <<[path |-> path, patterns |-> patterns,
                     allowed |-> isAllowedPath(path, patterns),
                     resp |-> LocalChecks(MkClaims(K1, patterns, 1, TRUE, Later), path, now).resp]>>
    /\ UNCHANGED <<now, redis, window, reqs, tally>>

NextScope == CallIsAllowedPath

SpecScope == InitScope /\ [][NextScope]_vars

(***************************************************************************)
(* extractBearer alone, on headers made of white space, a scheme, white    *)
(* space, a credential and white space.                                    *)
(***************************************************************************)
WhiteSpace == {" ", "\t"}

Schemes ==
    { <<>>, Bearer, <<"b", "e", "a", "r", "e", "r">>, <<"B", "E", "A", "R", "E", "R">>,
      <<"B", "e", "a", "r">>, <<"B", "e", "a", "r", "e", "r", "x">>, <<"T", "o", "k", "e", "n">> }

\* the Authorization headers
Headers ==
    { a \o sch \o b \o c \o d :
        a \in Strings(WhiteSpace, 1), sch \in Schemes, b \in Strings(WhiteSpace, MaxStr),
        c \in Strings({"x"} \cup WhiteSpace, MaxStr + 1), d \in Strings(WhiteSpace, 1) }

\* m.extractBearer(v)
CallExtractBearer ==
    /\ trace = <<>>
    /\ \E v \in Headers :
         trace' = <<[v |-> v, t |-> extractBearer(v).t, ok |-> extractBearer(v).ok]>>
    /\ UNCHANGED <<now, redis, window, reqs, tally>>

NextBearer == CallExtractBearer

SpecBearer == InitScope /\ [][NextBearer]_vars

(***************************************************************************)
(* The token record store alone: two clients call Upsert and GetToken for  *)
(* one API key over a Redis that holds no record or one written by the     *)
(* provisioning path, well formed or not, without a TTL, next to the       *)
(* expired record of another API key.  A GetToken that                     *)
(* found the record expired makes its Del as a step of its own, so that    *)
(* the calls of the other client fall between the two.  trace[1] is the    *)
(* last call with its result; stored: what the key held when it was made.  *)
(***************************************************************************)
\* the values a provisioned record may hold in its fields
StoredFields ==
    [api_key : {<<>>, K1},
     rate_limit : {<<>>, <<"x">>, Itoa(0), Itoa(1)},
     expires_at : {<<>>, <<"x">>} \cup {FormatRFC3339(k * Second) : k \in 0..(MaxTicks + 1)},
     allowed_routes : {<<>>, <<"[">>, MarshalRoutes(Slice(<<<<"/", "a">>>>))}]

\* the records a client hands to Upsert; no provisioned record has their
\* positive rate limit
UpsertTokens ==
    [APIKey : {<<>>, K1}, RateLimit : {0, 2},
     ExpiresAt : {ZeroTime, Second, Second + Second \div 2, Later},
     AllowedRoutes : {NilSlice}]

\* the record of another API key, which no call of the clients names
Bystander ==
    HSet([x \in {} |-> 0], key(K2),
         TokenFields([APIKey |-> K2, RateLimit |-> 1, ExpiresAt |-> 0,
                      AllowedRoutes |-> NilSlice]))

InitStore ==
    /\ now = 0
    /\ redis \in {Bystander}
                 \cup {HSet(Bystander, key(K1), f) : f \in StoredFields \ {NoFields}}
    /\ window = NewRateLimitWithOptions(OptionsWindow)
    /\ reqs = [r \in Slots |-> Idle]
    /\ tally = [x \in {} |-> 0]
    /\ trace = <<>>

\* st.GetToken(ctx, "k1") up to its expiry test, by client r
CallGetToken(r) ==
    /\ reqs[r].pc = "idle"
    /\ \E fail \in ReadFailures :
         LET g == GetTokenRead(redis, K1, now, fail)
         IN /\ trace' = <<[op |-> "GetToken", at |-> now, fail |-> fail,
                           stored |-> HGetAll(redis, key(K1)), err |-> g.err, t |-> g.t,
                           changed |-> FALSE]>>
            /\ reqs' = IF g.del THEN [reqs EXCEPT ![r] = [Idle EXCEPT !.pc = "del"]]
                       ELSE reqs
    /\ UNCHANGED <<now, redis, window, tally>>

\* GetToken lines 131-135: the best-effort Del of client r, which may fail
CallGetTokenDel(r) ==
    /\ reqs[r].pc = "del"
    /\ \E down \in BOOLEAN : redis' = IF down THEN redis ELSE Del(redis, key(K1))
    /\ reqs' = [reqs EXCEPT ![r] = Idle]
    /\ UNCHANGED <<now, window, tally, trace>>

\* st.Upsert(ctx, t)
CallUpsert ==
    /\ \E t \in UpsertTokens, fail \in Failures :
         LET u == Upsert(redis, t, now, fail)
         IN /\ redis' = u.db
            /\ trace' = <<[op |-> "Upsert", at |-> now, fail |-> fail,
                           stored |-> HGetAll(redis, key(K1)), err |-> u.err, t |-> t,
                           changed |-> u.db # redis]>>
    /\ UNCHANGED <<now, window, reqs, tally>>

NextStore ==
    \/ \E r \in Slots : CallGetToken(r)
    \/ \E r \in Slots : CallGetTokenDel(r)
    \/ CallUpsert
    \/ Advance

SpecStore == InitStore /\ [][NextStore]_vars

(***************************************************************************)
(* The counter store alone: the gateway instances call Incr for two API    *)
(* keys over an empty Redis while the clock advances by half seconds, so   *)
(* that one window sees increments at different times.  trace.first is,    *)
(* per counter key, when the server created the counter; trace.last is the *)
(* last call with its result.                                              *)
(***************************************************************************)
HalfTick == Second \div 2

NoCall == [key |-> <<>>, at |-> 0, v |-> 0, err |-> ""]

InitCounter ==
    /\ now = 0
    /\ redis = [x \in {} |-> 0]
    /\ window = NewRateLimitWithOptions(OptionsWindow)
    /\ reqs = [r \in Slots |-> Idle]
    /\ tally = [x \in {} |-> 0]
    /\ trace = [first |-> [x \in {} |-> 0], last |-> NoCall]

\* s.Incr(ctx, k, window)
CallIncr ==
    /\ \E k \in {K1, K2}, fail \in Failures :
         LET ck == counterKey(k, window, now)
             r == Incr(redis, k, window, now, fail)
         IN /\ CounterOf(redis, k, now) < MaxCount
            /\ redis' = r.db
            /\ trace' = [first |-> IF ServerRan(fail) /\ ~Exists(redis, ck)
                                   THEN Put(trace.first, ck, now) ELSE trace.first,
                         last |-> [key |-> k, at |-> now, v |-> r.v, err |-> r.err]]
    /\ UNCHANGED <<now, window, reqs, tally>>

\* half a second passes; the Redis server drops what has expired
Elapse ==
    /\ now < MaxHalfTicks * HalfTick
    /\ now' = now + HalfTick
    /\ redis' = Purge(redis, now + HalfTick)
    /\ UNCHANGED <<window, reqs, tally, trace>>

NextCounter ==
    \/ CallIncr
    \/ Elapse

SpecCounter == InitCounter /\ [][NextCounter]_vars

(***************************************************************************)
(* The rate limiter with any arguments: a limiter is built with some       *)
(* Options.Window and a client calls Allow with any key and limit.         *)
(* trace[1] is the construction, trace[2] the last call with its result;   *)
(* changed: the call changed what Redis holds.                             *)
(***************************************************************************)
\* Options.Window as given to NewRateLimitWithOptions; 0: not set, NewRateLimit
WindowOptions == {0 - Second, 0, Second, 2 * Second}

InitAllow ==
    /\ now = 0
    /\ redis = [x \in {} |-> 0]
    /\ \E opt \in WindowOptions :
          /\ window = NewRateLimitWithOptions(opt)
          /\ trace = <<[op |-> "New", opt |-> opt]>>
    /\ reqs = [r \in Slots |-> Idle]
    /\ tally = [x \in {} |-> 0]

\* rl.Allow(ctx, k, limit)
CallAllowArgs ==
    /\ \E k \in {<<>>, K1}, limit \in (0 - 1)..MaxLimit, fail \in Failures :
         LET a == Allow(redis, window, k, limit, now, fail)
         IN /\ CounterOf(redis, K1, now) <= MaxLimit
            /\ redis' = a.db
            /\ trace' = <<trace[1],
                          [op |-> "Allow", key |-> k, limit |-> limit, fail |-> fail,
                           at |-> now, allowed |-> a.allowed, err |-> a.err,
                           cause |-> a.cause, changed |-> a.db # redis]>>
    /\ UNCHANGED <<now, window, reqs, tally>>

NextAllow ==
    \/ CallAllowArgs
    \/ Advance

SpecAllow == InitAllow /\ [][NextAllow]_vars

(***************************************************************************)
(* The counter key alone: two callers derive the storage key of one API    *)
(* key and window, each from the reading of its own clock.                 *)
(***************************************************************************)
\* window lengths, with and without a fraction of a second
Windows == {Second \div 2, Second, Second + Second \div 2, 2 * Second, 3 * Second, Minute}

\* clock readings a quarter of a second apart
QuarterClocks == {k * (Second \div 4) : k \in 0..(4 * (MaxTicks + 3))}

\* s.counterKey(k, w) by a caller whose clock reads t1 and by one whose clock
\* reads t2
CallCounterKey ==
    /\ trace = <<>>
    /\ \E k \in {K1, K2}, w \in Windows, t1, t2 \in QuarterClocks :
         trace' = <<[key |-> k, w |-> w, t1 |-> t1, t2 |-> t2,
                     sk1 |-> counterKey(k, w, t1), sk2 |-> counterKey(k, w, t2)]>>
    /\ UNCHANGED <<now, redis, window, reqs, tally>>

NextWindow == CallCounterKey

SpecWindow == InitScope /\ [][NextWindow]_vars

(***************************************************************************)
(* The verifier alone: a verifier with some KeySet parses a token.         *)
(***************************************************************************)
\* the KeySets a verifier may be built with; DefaultKey "": nil
KeySets ==
    [ExpectedAlg : {"", "HS256", "RS256", "none"}, DefaultKey : {"", "secret", "pubkey"}]

\* the strings handed to Parse: the tokens in circulation, one that is no JWT
\* and the empty string
TokenStrings ==
    {<<c>> : c \in {"a", "b", "c", "g", "h", "i", "j", "k", "l", "z"}} \cup {<<>>}

\* NewJWTVerifier(ks).Parse(tokenString) at a reading of the clock
CallParse ==
    /\ trace = <<>>
    /\ \E ks \in KeySets, tokenString \in TokenStrings, t \in 0..(MaxTicks + 1) :
         LET p == Parse(ks, tokenString, t * Second)
         IN trace' = <<[ks |-> ks, tokenString |-> tokenString, at |-> t * Second,
                        err |-> p.err, claims |-> p.claims]>>
    /\ UNCHANGED <<now, redis, window, reqs, tally>>

NextVerifier == CallParse

SpecVerifier == InitScope /\ [][NextVerifier]_vars

(***************************************************************************)
(* Properties                                                              *)
(***************************************************************************)
Done(r) == reqs[r].pc = "done"

\* the stage that wrote the response of a finished request; 9: forwarded
Stage(q) ==
    CASE q.resp.msg = "missing bearer token" -> 1
      [] q.resp.msg = "invalid token: " -> 2
      [] q.resp.msg = "missing api_key claim" -> 3
      [] q.resp.msg = "token expired" -> 4
      [] q.resp.body = "Forbidden" -> 5
      [] q.resp.msg = "unknown token: " -> 6
      [] q.resp.msg = "token disabled" -> 7
      [] q.resp.body \in {"Rate limiter error", "Too Many Requests"} -> 8
      [] q.resp = forwarded -> 9
      [] OTHER -> 0

\* a header that carries a Bearer credential, stated without extractBearer
WellFormedBearer(v) ==
    LET tv == TrimSpace(v)
    IN \E i \in 2..Len(tv) :
         /\ tv[i] = " "
         /\ \A j \in 1..(i - 1) : tv[j] # " "
         /\ [j \in 1..(i - 1) |-> ToLower(tv[j])] = <<"b", "e", "a", "r", "e", "r">>
         /\ \E j \in (i + 1)..Len(tv) : ~IsSpace(tv[j])

\* the stored record of apiKey has a rate limit <= 0
Disabled(db, apiKey) ==
    /\ Exists(db, key(apiKey))
    /\ Atoi(db[key(apiKey)].h["rate_limit"]).ok
    /\ Atoi(db[key(apiKey)].h["rate_limit"]).n <= 0

\* the path is in the scope of the claims
InScope(q) == Len(q.claims.AllowedRoutes) = 0 \/ isAllowedPath(q.path, q.claims.AllowedRoutes)

\* the calls a finished request has made are those of the stages up to the one
\* that answered, and every earlier check had passed on the request
OrderOfChecks(q) ==
    LET st == Stage(q)
        one(b) == IF b THEN 1 ELSE 0
    IN /\ st \in 1..9
       /\ q.verifierCalls = one(st >= 2)
       /\ q.storeCalls = one(st >= 6)
       /\ q.limiterCalls = one(st >= 8)
       /\ q.nextCalls = one(st = 9)
       /\ (st = 1) <=> ~WellFormedBearer(q.auth)
       /\ (st >= 3) => ~q.claims.nil
       /\ (st >= 4) => q.claims.APIKey # <<>>
       /\ (st = 5) => ~InScope(q)
       /\ (st >= 6) => InScope(q)
       /\ (st >= 7) => q.storeErr = ""
       /\ (st >= 8) => q.limit > 0
       /\ (st = 9) => q.limiterErr = "" /\ q.allowed
       /\ q.resp.status =
            CASE st \in {1, 2, 3, 4, 6, 7} -> StatusUnauthorized
              [] st = 5 -> StatusForbidden
              [] st = 8 -> IF q.limiterErr # "" THEN StatusInternalServerError
                           ELSE StatusTooManyRequests
              [] st = 9 -> StatusOK

\* a request whose claim is expired when the local checks run ends there with
\* the expiry rejection, whatever its path and its token record
ExpiryFirst(r) ==
    (/\ reqs[r].pc = "checks"
     /\ reqs'[r] # reqs[r]
     /\ ~(reqs[r].claims.exp > now))
    => /\ reqs'[r].pc = "done"
       /\ reqs'[r].resp = unauthorized("token expired", "")
       /\ reqs'[r].storeCalls = 0
       /\ reqs'[r].limiterCalls = 0
       /\ reqs'[r].nextCalls = 0

\* C1: the checks run in the fixed order extract-bearer, verify, API key, expiry,
\* path scope, token lookup, token enabled, rate limit; the first failing check
\* decides the outcome and no collaborator of a later stage is called after it;
\* an expired claim with a disabled record ends with the expiry rejection and
\* no call to the token store
C1_PipelineOrder ==
    /\ [](\A r \in Slots : Done(r) => OrderOfChecks(reqs[r]))
    /\ [][\A r \in Slots : ExpiryFirst(r)]_vars

\* a request with an expired claim, a disabled record and a path out of scope
\* was rejected for its expiry without a store call
C1_Witness ==
    \E r \in Slots :
      /\ Done(r)
      /\ reqs[r].resp.msg = "token expired"
      /\ reqs[r].storeCalls = 0
      /\ Disabled(redis, reqs[r].claims.APIKey)
      /\ ~InScope(reqs[r])
      /\ ~(reqs[r].claims.exp > now)

APIKeys == {K1, K2, K3, K4}

Min(a, b) == IF a <= b THEN a ELSE b

\* the rate limit of the stored record of apiKey
StoredLimit(db, apiKey) == decodeToken(apiKey, HGetAll(db, key(apiKey))).t.RateLimit

\* C2: of the n requests of one API key that reached the limiter in one window,
\* from either instance and in any interleaving, exactly min(n, L) were
\* forwarded and the others were answered 429, L being the stored rate limit
\* and no call to Redis having failed in that window; with or without failures
\* never more than L are forwarded
C2_ExactlyLimitPerWindow ==
    \A a \in APIKeys :
      LET ck == counterKey(a, window, now)
      IN ck \in DOMAIN tally =>
           LET n == tally[ck].accepted + tally[ck].denied
               L == StoredLimit(redis, a)
           IN /\ tally[ck].accepted <= L
              /\ ~tally[ck].failed =>
                   /\ tally[ck].accepted = Min(n, L)
                   /\ tally[ck].denied = n - Min(n, L)
                   /\ Exists(redis, ck) /\ redis[ck].n = n

\* in one window both instances had a request of K1 forwarded and a further one
\* was answered 429
C2_Witness ==
    LET ck == counterKey(K1, window, now)
    IN /\ ck \in DOMAIN tally
       /\ ~tally[ck].failed
       /\ tally[ck].accepted = StoredLimit(redis, K1)
       /\ tally[ck].denied >= 1
       /\ \E r \in Slots : Done(r) /\ reqs[r].resp.status = StatusTooManyRequests
       /\ \E r \in Slots : Done(r) /\ reqs[r].resp.status = StatusOK

\* C3: every rate counter that exists has an expiry, and one that is still ahead
C3_CountersExpire ==
    \A k \in DOMAIN redis :
      redis[k].kind = "string" => redis[k].exp # NoExpiry /\ redis[k].exp > now

\* both instances incremented the counter of one window, and it has an expiry
C3_Witness ==
    /\ \A r \in Slots : Done(r) /\ reqs[r].limiterCalls = 1 /\ reqs[r].limiterErr = ""
    /\ \E k \in DOMAIN redis :
         redis[k].kind = "string" /\ redis[k].n = 2 /\ redis[k].exp # NoExpiry

\* C4: a token lookup that fails with an error other than NotFound or Expired
\* is answered 503; the store was called once, the limiter and the downstream
\* handler were not called
C4_StoreFailureIs503 ==
    \A r \in Slots :
      (Done(r) /\ reqs[r].storeCalls = 1
       /\ reqs[r].storeErr \notin {"", "ErrNotFound", "ErrExpired"})
      => /\ reqs[r].resp.status = StatusServiceUnavailable
         /\ reqs[r].limiterCalls = 0
         /\ reqs[r].nextCalls = 0

\* the calls up to the i-th that incremented the counter of its key and window:
\* the count after the increment of the i-th call
Rank(i) ==
    Cardinality({j \in 1..i : /\ trace[j].apiKey = trace[i].apiKey
                              /\ trace[j].ws = trace[i].ws
                              /\ trace[j].counted})

\* C5: for a limit L > 0 and the calls Allow(key, L) of one key inside one
\* window, the limiter allows exactly the first L calls and denies every later
\* one: a call is allowed iff the count after its increment is <= L
C5_AllowsFirstL ==
    \A i \in 1..Len(trace) :
      IF trace[i].err # "" THEN ~trace[i].allowed
      ELSE trace[i].counted /\ (trace[i].allowed <=> Rank(i) <= trace[i].limit)

\* with limit 2, three calls for one key in one window: allowed, allowed, denied
C5_Witness ==
    /\ Len(trace) >= 3
    /\ \A i \in 1..3 : /\ trace[i].apiKey = K1 /\ trace[i].ws = 0
                       /\ trace[i].err = "" /\ trace[i].limit = 2
    /\ trace[1].allowed /\ trace[2].allowed /\ ~trace[3].allowed

\* the response carries the WWW-Authenticate challenge
Challenged(q) == q.resp.challenge # ""

\* C6: a request that resolves to a record whose rate limit is <= 0 is never
\* forwarded: it never reaches the limiter and ends with 401 and a challenge
C6_DisabledNeverUsable ==
    \A r \in Slots :
      (reqs[r].storeCalls = 1 /\ Disabled(redis, reqs[r].claims.APIKey))
      => /\ reqs[r].pc # "limiter"
         /\ reqs[r].limiterCalls = 0
         /\ reqs[r].nextCalls = 0
         /\ Done(r) => reqs[r].resp.status = StatusUnauthorized /\ Challenged(reqs[r])

\* a request in scope and not expired found the disabled record and was rejected
C6_Witness ==
    \E r \in Slots :
      /\ Done(r)
      /\ reqs[r].storeCalls = 1
      /\ reqs[r].storeErr = "ErrInvalid"
      /\ Disabled(redis, reqs[r].claims.APIKey)
      /\ reqs[r].resp.status = StatusUnauthorized

\* C7: a request without an Authorization header, or with one that is no
\* well-formed Bearer credential, is answered 401 with a challenge; the
\* verifier, the token store, the limiter and the downstream handler are not called
C7_NoBearerNoCalls ==
    \A r \in Slots :
      (reqs[r].pc # "idle" /\ ~WellFormedBearer(reqs[r].auth))
      => /\ Done(r)
         /\ reqs[r].resp.status = StatusUnauthorized
         /\ Challenged(reqs[r])
         /\ reqs[r].verifierCalls = 0
         /\ reqs[r].storeCalls = 0
         /\ reqs[r].limiterCalls = 0
         /\ reqs[r].nextCalls = 0

\* one request had no header and one had a header of another scheme
C7_Witness ==
    /\ \E r \in Slots : Done(r) /\ reqs[r].auth = <<>>
    /\ \E r \in Slots : Done(r) /\ reqs[r].auth # <<>> /\ ~WellFormedBearer(reqs[r].auth)

\* C8: a lookup that returns NotFound or Expired is answered 401 with a
\* challenge; the store was called once and the limiter not at all
C8_UnknownTokenIs401 ==
    \A r \in Slots :
      (Done(r) /\ reqs[r].storeErr \in {"ErrNotFound", "ErrExpired"})
      => /\ reqs[r].resp.status = StatusUnauthorized
         /\ Challenged(reqs[r])
         /\ reqs[r].storeCalls = 1
         /\ reqs[r].limiterCalls = 0
         /\ reqs[r].nextCalls = 0

\* one request met NotFound and one met Expired
C8_Witness ==
    /\ \E r \in Slots : Done(r) /\ reqs[r].storeErr = "ErrNotFound"
    /\ \E r \in Slots : Done(r) /\ reqs[r].storeErr = "ErrExpired"

\* C9: once the limiter was called its answer alone decides: an error gives 500,
\* never 429 nor a forward; allowed = false without error gives 429;
\* allowed = true without error forwards the request
C9_LimiterAnswerDecides ==
    \A r \in Slots :
      (Done(r) /\ reqs[r].limiterCalls = 1)
      => /\ reqs[r].limiterErr # ""
              => reqs[r].resp.status = StatusInternalServerError /\ reqs[r].nextCalls = 0
         /\ (reqs[r].limiterErr = "" /\ ~reqs[r].allowed)
              => reqs[r].resp.status = StatusTooManyRequests /\ reqs[r].nextCalls = 0
         /\ (reqs[r].limiterErr = "" /\ reqs[r].allowed)
              => reqs[r].resp = forwarded /\ reqs[r].nextCalls = 1

\* the limiter failed for one request and denied another
C9_Witness ==
    /\ \E r \in Slots : Done(r) /\ reqs[r].limiterCalls = 1 /\ reqs[r].limiterErr # ""
    /\ \E r \in Slots : /\ Done(r) /\ reqs[r].limiterCalls = 1
                        /\ reqs[r].limiterErr = "" /\ ~reqs[r].allowed

\* the eight checks passed on a finished request
AllChecksPassed(q) ==
    /\ WellFormedBearer(q.auth)
    /\ q.verifierCalls = 1 /\ ~q.claims.nil
    /\ q.claims.APIKey # <<>>
    /\ q.claims.hasExp
    /\ InScope(q)
    /\ q.storeCalls = 1 /\ q.storeErr = ""
    /\ q.limit > 0
    /\ q.limiterCalls = 1 /\ q.limiterErr = "" /\ q.allowed

\* C10: the downstream handler is called iff all eight checks passed, then
\* exactly once and with the claims the verifier returned in the request
\* context; it is never called for a rejected request
C10_ForwardIffAllPass ==
    \A r \in Slots :
      /\ reqs[r].nextCalls \in {0, 1}
      /\ ~Done(r) => reqs[r].nextCalls = 0
      /\ Done(r) =>
           /\ reqs[r].nextCalls = 1 <=> AllChecksPassed(reqs[r])
           /\ reqs[r].nextCalls = 1 <=> reqs[r].resp = forwarded
           /\ reqs[r].nextCalls = 1 =>
                /\ ~reqs[r].ctxClaims.nil
                /\ reqs[r].ctxClaims = reqs[r].claims
                /\ reqs[r].ctxClaims.APIKey = reqs[r].claims.APIKey
           /\ reqs[r].nextCalls = 0 =>
                /\ reqs[r].ctxClaims.nil
                /\ reqs[r].resp.status \in
                     {StatusUnauthorized, StatusForbidden, StatusTooManyRequests,
                      StatusInternalServerError}

\* one request was forwarded with the claims of K1 and another one was rejected
C10_Witness ==
    /\ \E r \in Slots : /\ Done(r) /\ reqs[r].nextCalls = 1
                        /\ reqs[r].ctxClaims.APIKey = K1
    /\ \E r \in Slots : Done(r) /\ reqs[r].nextCalls = 0 /\ reqs[r].limiterCalls = 1

\* the class of the terminal outcome of a finished request
Outcome(q) ==
    CASE q.resp = forwarded -> "accepted"
      [] q.resp.status = StatusUnauthorized /\ Stage(q) \in {2, 4} -> "invalid-credential"
      [] q.resp.status = StatusUnauthorized /\ Stage(q) \in {1, 3, 6, 7} -> "missing-credential"
      [] q.resp.status = StatusForbidden -> "forbidden"
      [] q.resp.status = StatusTooManyRequests -> "rate-exceeded"
      [] q.resp.status \in {StatusInternalServerError, StatusServiceUnavailable}
           -> "infrastructure-failure"
      [] OTHER -> "none"

Outcomes ==
    {"accepted", "missing-credential", "invalid-credential", "forbidden", "rate-exceeded",
     "infrastructure-failure"}

\* how far the handler has come
PcRank(pc) ==
    CASE pc = "idle" -> 0
      [] pc = "checks" -> 1
      [] pc = "store" -> 2
      [] pc = "del" -> 3
      [] pc = "limiter" -> 4
      [] pc = "done" -> 5

\* the points of the handler a step of it starts from: HandlerChecks,
\* HandlerGetToken, HandlerGetTokenDel and HandlerAllow
StepPoints == {"checks", "store", "del", "limiter"}

\* a request being served has written nothing, has called each collaborator at
\* most once and stands where a step of the handler takes it on; a finished
\* request has one outcome
OneOutcome(r) ==
    /\ reqs[r].verifierCalls <= 1 /\ reqs[r].storeCalls <= 1 /\ reqs[r].limiterCalls <= 1
    /\ InFlight(r) => reqs[r].resp = NoResponse /\ reqs[r].pc \in StepPoints
    /\ Done(r) => Outcome(reqs[r]) \in Outcomes

\* every step of a request being served brings it nearer to its outcome and
\* makes at most one call, and none to a collaborator it has called before
NoRetry(r) ==
    (InFlight(r) /\ reqs'[r] # reqs[r])
    => /\ PcRank(reqs'[r].pc) > PcRank(reqs[r].pc)
       /\ reqs'[r].storeCalls <= 1 /\ reqs'[r].limiterCalls <= 1
       /\ reqs'[r].verifierCalls = reqs[r].verifierCalls
       /\ reqs[r].storeErr # "" => reqs'[r].storeCalls = reqs[r].storeCalls

\* C11: every request that enters the pipeline ends with exactly one outcome
\* among accepted, missing-credential, invalid-credential, forbidden,
\* rate-exceeded and infrastructure-failure, provided its collaborators return;
\* the verifier, the token store and the limiter are called at most once per
\* request, also after a failed store call
C11_OneOutcomeNoRetry ==
    /\ [](\A r \in Slots : OneOutcome(r))
    /\ [][\A r \in Slots : NoRetry(r)]_vars

\* a request whose token lookup failed ended there with one store call, and
\* another request was forwarded
C11_Witness ==
    /\ \E r \in Slots : /\ Done(r) /\ reqs[r].storeErr = "redis unavailable"
                        /\ reqs[r].storeCalls = 1 /\ reqs[r].limiterCalls = 0
    /\ \E r \in Slots : Done(r) /\ Outcome(reqs[r]) = "accepted"

\* the context of the request was cancelled or timed out while the token
\* lookup or the limiter call was in flight
Canceled(q) == q.storeErr = "context canceled" \/ q.limiterCause = "context canceled"

\* C12: a request whose context is cancelled or times out during the token
\* lookup or the limiter call ends with an infrastructure failure (5xx), never
\* with 401 and never with 429
C12_CancelIsInfrastructureFailure ==
    \A r \in Slots :
      (Done(r) /\ Canceled(reqs[r]))
      => reqs[r].resp.status \in {StatusInternalServerError, StatusServiceUnavailable}

\* the rule of the path scope for one pattern
MatchesPattern(path, p) ==
    \/ p = <<"*">>
    \/ Len(p) > 0 /\ p[Len(p)] = "*" /\ Len(path) >= Len(p) - 1
         /\ \A i \in 1..(Len(p) - 1) : path[i] = p[i]
    \/ p = path

\* p without the white space around it
Stripped(p) ==
    IF \A i \in 1..Len(p) : IsSpace(p[i]) THEN <<>>
    ELSE LET a == CHOOSE i \in 1..Len(p) :
                    ~IsSpace(p[i]) /\ \A j \in 1..(i - 1) : IsSpace(p[j])
             b == CHOOSE i \in 1..Len(p) :
                    ~IsSpace(p[i]) /\ \A j \in (i + 1)..Len(p) : IsSpace(p[j])
         IN [i \in 1..(b - a + 1) |-> p[a + i - 1]]

\* the scope check of Handler answers as isAllowedPath does; it is skipped when
\* there is no pattern
ScopeStage(c) ==
    /\ c.patterns = <<>> => c.resp = NoResponse
    /\ c.patterns # <<>> =>
         c.resp = IF c.allowed THEN NoResponse ELSE httpError("Forbidden", StatusForbidden)

\* C13 as stated: a non-empty path is allowed iff some pattern is "*", or ends
\* in "*" and the path starts with the pattern minus that "*", or equals the
\* path; an empty path matches no list; without patterns the check is skipped
C13_PathScopeAsStated ==
    \A i \in 1..Len(trace) :
      LET c == trace[i]
      IN /\ c.path = <<>> => ~c.allowed
         /\ c.path # <<>> =>
              (c.allowed <=> \E k \in 1..Len(c.patterns) : MatchesPattern(c.path, c.patterns[k]))
         /\ ScopeStage(c)

\* C13, amended: the rule applies to each pattern without the white space
\* around it; a non-empty path is allowed iff some pattern so stripped is "*",
\* or ends in "*" and the path starts with it minus that "*", or equals the
\* path; an empty path matches no list; without patterns the check is skipped
C13_PathScope ==
    \A i \in 1..Len(trace) :
      LET c == trace[i]
      IN /\ c.path = <<>> => ~c.allowed
         /\ c.path # <<>> =>
              (c.allowed <=>
                 \E k \in 1..Len(c.patterns) : MatchesPattern(c.path, Stripped(c.patterns[k])))
         /\ ScopeStage(c)

\* the second pattern of a list matched by its prefix and the request proceeded
C13_Witness ==
    /\ trace # <<>>
    /\ trace[1].path = <<"/", "a">>
    /\ trace[1].patterns = <<<<" ", "a">>, <<"/", "*">>>>
    /\ trace[1].allowed
    /\ trace[1].resp = NoResponse

\* C14: every 401 response carries the WWW-Authenticate challenge; a request
\* rejected for its path is answered 403 without it, and neither the token
\* store nor the limiter was called; no 403, 429 or 500 carries a challenge
C14_ChallengeOn401Only ==
    \A r \in Slots :
      Done(r) =>
        /\ reqs[r].resp.status = StatusUnauthorized
             => reqs[r].resp.challenge = "Bearer realm=\"api\""
        /\ reqs[r].resp.status \in
             {StatusForbidden, StatusTooManyRequests, StatusInternalServerError}
             => reqs[r].resp.challenge = ""
        /\ (~reqs[r].claims.nil /\ ~InScope(reqs[r]) /\ reqs[r].resp.msg # "token expired")
             => /\ reqs[r].resp.status = StatusForbidden
                /\ reqs[r].resp.challenge = ""
                /\ reqs[r].storeCalls = 0
                /\ reqs[r].limiterCalls = 0
                /\ reqs[r].nextCalls = 0

\* one request was answered 401 for an unknown token and one 403 for its path
C14_Witness ==
    /\ \E r \in Slots : /\ Done(r) /\ reqs[r].resp.status = StatusUnauthorized
                        /\ reqs[r].storeCalls = 1
    /\ \E r \in Slots : /\ Done(r) /\ reqs[r].resp.status = StatusForbidden
                        /\ ~InScope(reqs[r])

\* s is Bearer in any mix of upper and lower case
IsBearer(s) ==
    /\ Len(s) = Len(Bearer)
    /\ \A i \in 1..Len(s) : \/ s[i] = Bearer[i]
                            \/ ToLower(s[i]) = Bearer[i]
                            \/ s[i] = ToLower(Bearer[i])

\* the header without the white space around it, cut at its first space
BeforeSpace(tv, k) == [j \in 1..(k - 1) |-> tv[j]]

AfterSpace(tv, k) == [j \in 1..(Len(tv) - k) |-> tv[k + j]]

FirstSpace(tv) == {k \in 1..Len(tv) : tv[k] = " " /\ \A j \in 1..(k - 1) : tv[j] # " "}

\* C15 as stated: extraction succeeds exactly when the header is non-empty and
\* splits into exactly two tokens, each stripped of the white space around it,
\* the first equal to "Bearer" in any case and the second non-empty; the
\* credential returned is the second token; every other header is rejected
C15_BearerAsStated ==
    \A i \in 1..Len(trace) :
      LET c == trace[i]
          tv == Stripped(c.v)
          good == \E k \in FirstSpace(tv) :
                    /\ IsBearer(Stripped(BeforeSpace(tv, k)))
                    /\ Stripped(AfterSpace(tv, k)) # <<>>
      IN /\ c.ok <=> good
         /\ c.ok => \A k \in FirstSpace(tv) : c.t = Stripped(AfterSpace(tv, k))
         /\ ~c.ok => c.t = <<>>

\* C15, amended: the header, stripped of the white space around it, is split
\* at its first space character; extraction succeeds exactly when there is
\* such a space, what stands before it equals "Bearer" in any case as it
\* stands (it is not stripped: a tab after the scheme makes the header fail)
\* and what stands after it is not blank; the credential returned is all that
\* stands after it, stripped of the white space around it; every other header
\* is rejected
C15_BearerExtraction ==
    \A i \in 1..Len(trace) :
      LET c == trace[i]
          tv == Stripped(c.v)
          good == \E k \in FirstSpace(tv) :
                    /\ IsBearer(BeforeSpace(tv, k))
                    /\ \E j \in (k + 1)..Len(tv) : ~IsSpace(tv[j])
      IN /\ c.ok <=> good
         /\ c.ok => \A k \in FirstSpace(tv) : c.t = Stripped(AfterSpace(tv, k))
         /\ ~c.ok => c.t = <<>>

\* "  bearer \t x x " gave the credential "x x"
C15_Witness ==
    /\ trace # <<>>
    /\ trace[1].v = <<" ", "b", "e", "a", "r", "e", "r", " ", "\t", "x", " ", "x", " ">>
    /\ trace[1].ok
    /\ trace[1].t = <<"x", " ", "x">>

\* the claims of the token a request presents, when its signature is good
Presented(q) == Decode(Bearers[q.auth].t)

GoodSignature(q) ==
    /\ Bearers[q.auth].ok
    /\ Presented(q) # Malformed
    /\ Presented(q).alg = KeySetCfg.ExpectedAlg
    /\ Presented(q).signedWith = KeySetCfg.DefaultKey

\* the expiry of the claims is absent, before t or equal to t
NotAfter(c, t) == ~c.hasExp \/ c.exp < t \/ c.exp = t

\* rejected with 401 and without a call to the token store or the limiter
RejectedEarly(q) ==
    /\ q.pc = "done"
    /\ q.resp.status = StatusUnauthorized
    /\ q.storeCalls = 0 /\ q.limiterCalls = 0 /\ q.nextCalls = 0

\* the verifier and the expiry check of Handler, each at the time it reads the
\* clock, reject a claim whose expiry is absent, before now or equal to now;
\* the path is looked at only for an expiry after now
StrictExpiry(r) ==
    /\ (reqs[r].pc \in {"idle", "done"} /\ reqs'[r] # reqs[r] /\ reqs'[r].pc # "idle"
        /\ GoodSignature(reqs'[r]) /\ NotAfter(Presented(reqs'[r]).claims, now))
       => RejectedEarly(reqs'[r])
    /\ (reqs[r].pc = "checks" /\ reqs'[r] # reqs[r])
       => IF NotAfter(reqs[r].claims, now)
          THEN RejectedEarly(reqs'[r]) /\ reqs'[r].resp = unauthorized("token expired", "")
          ELSE reqs'[r].resp.msg # "token expired"
    /\ (reqs'[r].pc = "store" /\ reqs[r].pc # "store")
       => reqs[r].claims.hasExp /\ reqs[r].claims.exp > now

\* C16: a request is accepted only if the expiry of its claim is strictly after
\* the current time of the pipeline: a claim whose expiry is absent, earlier
\* than now or equal to now is rejected with 401 before the path scope is
\* looked at and before any call to the token store or the limiter
C16_ExpiryStrictlyAfterNow ==
    /\ [][\A r \in Slots : StrictExpiry(r)]_vars
    /\ [](\A r \in Slots : reqs[r].nextCalls = 1 => reqs[r].claims.hasExp)

\* a claim that expires exactly now, on a path out of its scope, was rejected
\* by the expiry check; a token without expiry was rejected by the verifier
C16_Witness ==
    /\ \E r \in Slots : /\ Done(r) /\ reqs[r].resp.msg = "token expired"
                        /\ reqs[r].claims.exp = now /\ ~InScope(reqs[r])
    /\ \E r \in Slots : /\ Done(r) /\ GoodSignature(reqs[r])
                        /\ ~Presented(reqs[r]).claims.hasExp
                        /\ reqs[r].resp.status = StatusUnauthorized

\* the record GetToken was called on has a positive rate limit and an expiry
\* and routes that parse
WellFormed(m) == decodeToken(K1, m).err = ""

\* the call read a record whose expires_at is a time not after the clock
ReadAtOrAfterExpiry(c) ==
    /\ c.op = "GetToken" /\ c.fail = "none" /\ FieldCount(c.stored) > 0
    /\ ParseRFC3339(c.stored["expires_at"]).ok
    /\ ParseRFC3339(c.stored["expires_at"]).t <= c.at

\* a record returned without error is the stored one and expires after the
\* clock of the call
NeverStale(c) ==
    (c.op = "GetToken" /\ c.err = "")
    => /\ c.t.ExpiresAt > c.at
       /\ c.fail = "none"
       /\ c.t.ExpiresAt = ParseRFC3339(c.stored["expires_at"]).t

\* C17 as stated: GetToken never returns a stale record, and every record read
\* at or after its expires_at yields the Expired error
C17_ExpiredAsStated ==
    \A i \in 1..Len(trace) :
        /\ NeverStale(trace[i])
        /\ ReadAtOrAfterExpiry(trace[i]) => trace[i].err = "ErrExpired"

\* C17: GetToken never returns a stale record: a record it returns without
\* error has an expires_at strictly after the store's current time; a record
\* read at or after its expires_at yields the Expired error when its other
\* fields decode (a positive rate limit, routes that parse) and the Invalid
\* error when they do not
C17_NeverStale ==
    \A i \in 1..Len(trace) :
        /\ NeverStale(trace[i])
        /\ ReadAtOrAfterExpiry(trace[i])
             => trace[i].err = IF WellFormed(trace[i].stored) THEN "ErrExpired"
                               ELSE "ErrInvalid"

\* a well-formed record was read at the very instant of its expires_at, after
\* the clock had advanced: Expired, and the record is gone from Redis
C17_Witness ==
    /\ trace # <<>> /\ ReadAtOrAfterExpiry(trace[1]) /\ WellFormed(trace[1].stored)
    /\ trace[1].at > 0
    /\ ParseRFC3339(trace[1].stored["expires_at"]).t = trace[1].at
    /\ trace[1].err = "ErrExpired" /\ ~Exists(redis, key(K1))

\* API keys, some of them made of the others' characters, the separator and
\* digits; window lengths; clock readings
KeysAlike == {K1, K2, <<"k">>, K1 \o <<":">>, K1 \o <<":", "0">>, <<"k", ":", "1">>}

WindowsAlike == {Second, 2 * Second, Minute}

Clocks == {k * (Second \div 2) : k \in 0..(2 * MaxTicks + 2)}

\* the storage keys of two different API keys differ, whatever the windows
DistinctCounterKeys ==
    \A a, b \in KeysAlike : \A w1, w2 \in WindowsAlike : \A t1, t2 \in Clocks :
        a # b => counterKey(a, w1, t1) # counterKey(b, w2, t2)

\* the answer the next call for key b would get, with the Redis it would leave
NextAnswer(db, b, limit) ==
    LET a == Allow(db, window, b, limit, now, "none")
    IN [allowed |-> a.allowed, err |-> a.err,
        counter |-> a.db[counterKey(b, window, now)]]

\* a call of Allow leaves what Redis holds under every key but the counter
\* key of the call as it was, and with it the answer to every other API key
OthersUntouched ==
    trace' # trace
    => LET c == trace'[Len(trace')]
           ck == counterKey(c.apiKey, window, now)
       IN /\ \A sk \in ((DOMAIN redis) \cup (DOMAIN redis')) \ {ck} :
                sk \in DOMAIN redis /\ sk \in DOMAIN redis' /\ redis'[sk] = redis[sk]
          /\ \A b \in {K1, K2} \ {c.apiKey} :
                /\ counterKey(b, window, now) # ck
                /\ NextAnswer(redis', b, c.limit) = NextAnswer(redis, b, c.limit)

\* C18: counters of different API keys never share state: their storage keys
\* differ for any windows, and an Incr for one key changes neither the count
\* nor the expiry nor the allow/deny outcome of another key, also within one
\* second
C18_KeysIsolated ==
    /\ []DistinctCounterKeys
    /\ [][OthersUntouched]_vars

\* within one second one key was denied and the other key was allowed after it
C18_Witness ==
    \E i, j \in 1..Len(trace) :
        /\ i < j /\ trace[i].apiKey = K1 /\ trace[j].apiKey = K2
        /\ trace[i].ws = trace[j].ws
        /\ trace[i].err = "" /\ ~trace[i].allowed
        /\ trace[j].err = "" /\ trace[j].allowed
        /\ Exists(redis, counterKey(K1, window, now))
        /\ Exists(redis, counterKey(K2, window, now))

\* the clock readings of the counter store alone
HalfClocks == {k * HalfTick : k \in 0..MaxHalfTicks}

\* the counters Redis holds for API key k and the window that starts at ws
CountersOf(k, ws) ==
    {sk \in DOMAIN redis :
        \E t \in HalfClocks : windowStart(t, window) = ws /\ sk = counterKey(k, window, t)}

\* one counter at most per API key and window, and every counter ever created
\* is there until window + 1000 ms after its first increment and not after
OneCounterUntilExpiry ==
    /\ \A k \in {K1, K2} : \A t \in HalfClocks :
          Cardinality(CountersOf(k, windowStart(t, window))) <= 1
    /\ \A sk \in DOMAIN trace.first :
          /\ Exists(redis, sk) <=> now < trace.first[sk] + window + TTLBufferMs
          /\ Exists(redis, sk) => redis[sk].exp = trace.first[sk] + window + TTLBufferMs
    /\ \A sk \in DOMAIN redis : sk \in DOMAIN trace.first

\* the increment that creates a counter sets its expiry, a later one leaves the
\* expiry as it is, and no call removes a counter: only the passing of time does
ExpirySetOnce ==
    /\ \A sk \in DOMAIN redis' :
          IF Exists(redis, sk)
          THEN /\ redis'[sk].exp = redis[sk].exp
               /\ redis'[sk].n \in {redis[sk].n, redis[sk].n + 1}
          ELSE /\ redis'[sk].n = 1
               /\ redis'[sk].exp = now + window + TTLBufferMs
    /\ (\E sk \in DOMAIN redis : ~Exists(redis', sk)) => now' > now

\* C19: for each (key, window) pair at most one counter exists at any time;
\* the increment that creates it sets its expiry to window + 1000 ms, later
\* increments of the window never reset or extend it, the counter is removed
\* by expiry window + 1000 ms after its first increment and never by a call
C19_OneCounterExpirySetOnce ==
    /\ []OneCounterUntilExpiry
    /\ [][ExpirySetOnce]_vars

\* a counter created at the start of a window, incremented again half a second
\* later, is gone window + 1000 ms after its creation
C19_Witness ==
    /\ \E sk \in DOMAIN trace.first :
          /\ trace.first[sk] = 0
          /\ now = window + TTLBufferMs
          /\ ~Exists(redis, sk)
    /\ \E sk \in DOMAIN redis :
          /\ redis[sk].n >= 2
          /\ trace.first[sk] + HalfTick <= trace.last.at
          /\ sk = counterKey(trace.last.key, window, trace.last.at)
          /\ trace.last.v = redis[sk].n

\* the rate counters Redis holds
Counters(db) == [sk \in {k \in DOMAIN db : db[k].kind = "string"} |-> db[sk]]

\* the request was rejected at bearer extraction, verification, API key,
\* expiry, path scope, token lookup or token-enabled
RejectedBeforeLimiter(q) == q.pc = "done" /\ Stage(q) \in 1..7

\* the request passed every check that comes before the limiter
PassedEarlierChecks(q) ==
    /\ WellFormedBearer(q.auth)
    /\ q.verifierCalls = 1 /\ ~q.claims.nil
    /\ q.claims.APIKey # <<>>
    /\ q.claims.hasExp
    /\ InScope(q)
    /\ q.storeCalls = 1 /\ q.storeErr = ""
    /\ q.limit > 0

\* a step that rejects a request before the limiter leaves every counter as it
\* was; a step of a handler that changes a counter is the limiter call of a
\* request that passed the earlier checks, and changes the counter of its API
\* key only
CountedOnlyAfterChecks ==
    /\ \A r \in Slots :
          (reqs'[r] # reqs[r] /\ RejectedBeforeLimiter(reqs'[r]))
          => Counters(redis') = Counters(redis)
    /\ (now' = now /\ Counters(redis') # Counters(redis))
        => \E r \in Slots :
             /\ reqs[r].pc = "limiter" /\ reqs'[r].pc = "done"
             /\ reqs[r].limiterCalls = 0 /\ reqs'[r].limiterCalls = 1
             /\ PassedEarlierChecks(reqs[r])
             /\ \A sk \in (DOMAIN Counters(redis)) \cup (DOMAIN Counters(redis')) :
                   sk # counterKey(reqs[r].claims.APIKey, window, now)
                   => /\ sk \in DOMAIN redis /\ sk \in DOMAIN redis'
                      /\ redis'[sk] = redis[sk]

\* C20: the rate counter is incremented only by requests that passed every
\* earlier check: a request rejected at bearer extraction, verification, API
\* key, expiry, path scope, token lookup or token-enabled made no limiter call
\* and left every rate counter unchanged
C20_CountedOnlyAfterChecks ==
    /\ [](\A r \in Slots : RejectedBeforeLimiter(reqs[r]) => reqs[r].limiterCalls = 0)
    /\ [][CountedOnlyAfterChecks]_vars

\* a request with a disabled record was rejected at the token lookup and its
\* API key has no counter, while a forwarded request has been counted
C20_Witness ==
    /\ \E r \in Slots :
          /\ RejectedBeforeLimiter(reqs[r]) /\ Stage(reqs[r]) = 6
          /\ reqs[r].storeErr = "ErrInvalid"
          /\ CounterOf(redis, reqs[r].claims.APIKey, now) = 0
    /\ \E r \in Slots :
          /\ Done(r) /\ reqs[r].resp = forwarded
          /\ CounterOf(redis, reqs[r].claims.APIKey, now) >= 1

\* the last call of Allow, if there was one
Called == Len(trace) = 2

\* C21: Allow with an empty key or with limit <= 0 returns (false, error)
\* without calling the counter store: no counter is created or incremented
C21_BadArgsNoStoreCall ==
    (Called /\ (trace[2].key = <<>> \/ trace[2].limit <= 0))
    => /\ ~trace[2].allowed
       /\ trace[2].err # ""
       /\ trace[2].cause = ""
       /\ ~trace[2].changed

\* Allow was called with limit 0 for a key whose counter stands at 1, while the
\* store would have run the increment: the counter still stands at 1
C21_Witness ==
    /\ Called /\ trace[2].key = K1 /\ trace[2].limit = 0 /\ trace[2].fail = "none"
    /\ trace[2].err = "rate limit: limit must be > 0"
    /\ CounterOf(redis, K1, now) = 1
    /\ trace[2].at = now

\* the call reached the counter store: its arguments were in order
ReachedStore(c) == c.key # <<>> /\ c.limit > 0

\* C22: when the counter store's Incr fails, Allow returns allowed = false with
\* an error that wraps the store's error, the cause being the store's own
\* error; Allow never returns allowed = true with an error, and a failure of
\* the store is never reported as a plain denial (false, nil)
C22_StoreErrorWrapped ==
    Called =>
      /\ ~(trace[2].allowed /\ trace[2].err # "")
      /\ (ReachedStore(trace[2]) /\ trace[2].fail # "none")
         => /\ ~trace[2].allowed
            /\ trace[2].err = "rate limit: failed to increment counter"
            /\ trace[2].cause = CallErr(trace[2].fail)
            /\ trace[2].cause # "" /\ trace[2].cause # trace[2].err
      /\ (ReachedStore(trace[2]) /\ trace[2].fail = "none")
         => trace[2].err = "" /\ trace[2].cause = ""

\* the reply of the first increment of a window was lost: the counter stands at
\* 1, within the limit, and Allow returned false with the wrapped error
C22_Witness ==
    /\ Called /\ ReachedStore(trace[2]) /\ trace[2].fail = "after"
    /\ trace[2].changed /\ trace[2].at = now
    /\ CounterOf(redis, K1, now) = 1 /\ trace[2].limit >= 1
    /\ ~trace[2].allowed /\ trace[2].cause = "redis unavailable"

\* the window a limiter built with Options.Window = opt has to use
ExpectedWindow(opt) == IF opt <= 0 THEN Minute ELSE opt

\* the clock readings of the limiter up to now
ClocksSoFar == {k * Tick : k \in 0..(now \div Tick)}

\* every counter in Redis was created under the storage key and with the
\* expiry of the expected window: that window was passed to the counter store
StoreSawWindow(w) ==
    \A sk \in DOMAIN redis :
        \E t \in ClocksSoFar :
            /\ sk = counterKey(K1, w, t)
            /\ redis[sk].exp = t + w + TTLBufferMs

\* C29: a limiter built without a window or with a window <= 0 uses a
\* one-minute window, a limiter built with a positive window uses exactly that
\* window, and the window passed to the counter store is the same on every
\* Allow call for the limiter's lifetime
C29_WindowFixed ==
    /\ [](/\ window = ExpectedWindow(trace[1].opt)
          /\ window > 0
          /\ StoreSawWindow(ExpectedWindow(trace[1].opt)))
    /\ [][window' = window /\ trace'[1] = trace[1]]_vars

\* a limiter built without a window allowed a call after the clock had
\* advanced, and the counter of the minute holds the calls from before and
\* after
C29_Witness ==
    /\ trace[1].opt = 0 /\ window = Minute
    /\ Called /\ trace[2].allowed /\ trace[2].at = now /\ now > 0
    /\ Exists(redis, counterKey(K1, Minute, 0))
    /\ redis[counterKey(K1, Minute, 0)].n >= 2
    /\ redis[counterKey(K1, Minute, 0)].exp = Minute + TTLBufferMs

\* the record handed to Upsert does not pass its validation at the clock of
\* the call
FailsValidation(c) ==
    \/ c.t.APIKey = <<>>
    \/ c.t.RateLimit <= 0
    \/ c.t.ExpiresAt = ZeroTime
    \/ c.t.ExpiresAt <= c.at

\* C23: Upsert reports every validation failure and writes nothing on failure:
\* with an empty API key, a rate limit <= 0, a zero expiry or an expiry not
\* strictly after the store's clock it returns an error and leaves what is
\* stored as it was
C23_UpsertValidates ==
    \A i \in 1..Len(trace) :
        (trace[i].op = "Upsert" /\ FailsValidation(trace[i]))
        => /\ trace[i].err \in {"ErrInvalid", "ErrExpired"}
           /\ ~trace[i].changed
           /\ trace[i].err = "ErrExpired"
                => /\ trace[i].t.ExpiresAt <= trace[i].at
                   /\ trace[i].t.RateLimit > 0 /\ trace[i].t.APIKey # <<>>

\* Upsert was called with a rate limit of 0 over a provisioned record while
\* Redis was reachable: ErrInvalid, and the record is as it was
C23_Witness ==
    /\ trace # <<>> /\ trace[1].op = "Upsert" /\ trace[1].fail = "none"
    /\ trace[1].t.APIKey = K1 /\ trace[1].t.RateLimit = 0 /\ trace[1].t.ExpiresAt = Later
    /\ trace[1].err = "ErrInvalid"
    /\ FieldCount(trace[1].stored) > 0
    /\ HGetAll(redis, key(K1)) = trace[1].stored

\* the key of K1 holds a record written by Upsert: no provisioned record has
\* the rate limit of UpsertTokens
WrittenByUpsert == Exists(redis, key(K1)) /\ redis[key(K1)].h["rate_limit"] = Itoa(2)

\* C24: every token record written by Upsert carries a store-level expiry
\* equal to its expires_at, set in the same transaction as the fields: in no
\* reachable state, also under concurrent Upserts and reads of the same key,
\* does such a record exist without that expiry, and after expires_at the
\* store no longer holds it
C24_RecordExpiresWithExpiresAt ==
    WrittenByUpsert
    => /\ redis[key(K1)].exp # NoExpiry
       /\ ParseRFC3339(redis[key(K1)].h["expires_at"]).ok
       /\ redis[key(K1)].exp = ParseRFC3339(redis[key(K1)].h["expires_at"]).t
       /\ now < redis[key(K1)].exp

\* Upsert wrote over a provisioned record without a TTL, with an expiry one
\* second ahead; the second has passed and Redis holds no record
C24_Witness ==
    /\ trace # <<>> /\ trace[1].op = "Upsert" /\ trace[1].err = ""
    /\ trace[1].changed /\ FieldCount(trace[1].stored) > 0
    /\ trace[1].t.ExpiresAt = Second /\ trace[1].at = 0
    /\ now = Second
    /\ ~Exists(redis, key(K1))

\* the greatest multiple of sec that does not exceed u
GreatestMultiple(sec, u) ==
    CHOOSE m \in 0..u : /\ m % sec = 0
                        /\ \A m2 \in 0..u : m2 % sec = 0 => m2 <= m

\* the whole seconds of a reading of the clock and of a window
WholeSeconds(d) == (d - (d % Second)) \div Second

\* the storage key is the prefix, the API key, a colon and the decimal number n
KeyIs(sk, k, n) ==
    LET head == CounterPrefix \o k \o <<":">>
    IN /\ HasPrefix(sk, head)
       /\ Atoi(SubSeq(sk, Len(head) + 1, Len(sk))) = [ok |-> TRUE, n |-> n]

\* C25: the counter storage key is prefix + key + ":" + floor(now_unix /
\* window_seconds) * window_seconds, window_seconds being the whole seconds of
\* the window: the window start is the greatest multiple of window_seconds not
\* exceeding now_unix, and for a given key and window every caller whose clock
\* reads the same Unix second derives the same storage key
C25_WindowKey ==
    \A i \in 1..Len(trace) :
        LET c == trace[i]
        IN /\ WholeSeconds(c.t1) = WholeSeconds(c.t2) => c.sk1 = c.sk2
           /\ WholeSeconds(c.w) >= 1
              => /\ KeyIs(c.sk1, c.key,
                          GreatestMultiple(WholeSeconds(c.w), WholeSeconds(c.t1)))
                 /\ KeyIs(c.sk2, c.key,
                          GreatestMultiple(WholeSeconds(c.w), WholeSeconds(c.t2)))

\* with a window of two seconds, two callers within the second that starts at
\* 3 s derive the key of the window that starts at 2 s, a quarter of a second
\* apart
C25_Witness ==
    /\ trace # <<>> /\ trace[1].w = 2 * Second
    /\ trace[1].t1 = 3 * Second /\ trace[1].t2 = 3 * Second + Second \div 4
    /\ trace[1].sk1 = trace[1].sk2
    /\ KeyIs(trace[1].sk1, trace[1].key, 2)

(***************************************************************************)
(* The rate limiter around a window boundary: clients call Allow for one   *)
(* API key with one limit while the clock advances by half seconds.        *)
(* trace.limit is the limit, trace.allowed[t] the number of calls allowed  *)
(* at clock reading t.                                                     *)
(***************************************************************************)
InitBurst ==
    /\ now = 0
    /\ redis = [x \in {} |-> 0]
    /\ window = NewRateLimitWithOptions(OptionsWindow)
    /\ reqs = [r \in Slots |-> Idle]
    /\ tally = [x \in {} |-> 0]
    /\ \E limit \in 1..MaxCount :
          trace = [limit |-> limit, allowed |-> [t \in HalfClocks |-> 0]]

\* rl.Allow(ctx, "k1", limit)
CallAllowBurst ==
    /\ CounterOf(redis, K1, now) <= trace.limit
    /\ \E fail \in Failures :
         LET a == Allow(redis, window, K1, trace.limit, now, fail)
         IN /\ redis' = a.db
            /\ trace' = IF a.allowed
                        THEN [trace EXCEPT !.allowed[now] = @ + 1]
                        ELSE trace
    /\ UNCHANGED <<now, window, reqs, tally>>

NextBurst ==
    \/ CallAllowBurst
    \/ Elapse

SpecBurst == InitBurst /\ [][NextBurst]_vars

RECURSIVE AllowedIn(_)
\* the calls allowed at the clock readings of T
AllowedIn(T) ==
    IF T = {} THEN 0
    ELSE LET t == CHOOSE x \in T : TRUE
         IN trace.allowed[t] + AllowedIn(T \ {t})

\* the clock readings from t1 to t2
Interval(t1, t2) == {t \in HalfClocks : t1 <= t /\ t <= t2}

\* the interval from t1 to t2 lies in one window, or spans one window boundary
InOneWindow(t1, t2) == windowStart(t1, window) = windowStart(t2, window)

SpansOneBoundary(t1, t2) ==
    windowStart(t2, window) * Second = windowStart(t1, window) * Second + window

\* C26: fixed-window bursting is bounded: for one key with limit L at most L
\* requests are allowed in any single window and so at most 2 x L in any time
\* interval that spans one window boundary
C26_BurstBounded ==
    \A t1, t2 \in HalfClocks :
        /\ (t1 <= t2 /\ InOneWindow(t1, t2))
           => AllowedIn(Interval(t1, t2)) <= trace.limit
        /\ (t1 <= t2 /\ SpansOneBoundary(t1, t2))
           => AllowedIn(Interval(t1, t2)) <= 2 * trace.limit

\* 2 x L requests were allowed within half a window length around a boundary,
\* L of them in the second half of a window and L at the start of the next
C26_Witness ==
    /\ trace.limit = MaxCount
    /\ \E t \in HalfClocks :
          /\ t + HalfTick \in HalfClocks
          /\ SpansOneBoundary(t, t + HalfTick)
          /\ HalfTick < window
          /\ trace.allowed[t] = trace.limit
          /\ trace.allowed[t + HalfTick] = trace.limit
          /\ AllowedIn(Interval(t, t + HalfTick)) = 2 * trace.limit

\* what the client receives of a response
Wire(resp) == [status |-> resp.status, body |-> resp.body, challenge |-> resp.challenge]

\* the request is finished and was rejected
Rejected(q) == q.pc = "done" /\ q.resp # forwarded

\* the outcome class of a rejected request, from the check that rejected it;
\* Handler puts every error of the token lookup in one class
RejectionClass(q) ==
    CASE Stage(q) \in {1, 3, 6, 7} -> "missing-credential"
      [] Stage(q) \in {2, 4} -> "invalid-credential"
      [] Stage(q) = 5 -> "forbidden"
      [] Stage(q) = 8 /\ q.limiterErr # "" -> "infrastructure-failure"
      [] Stage(q) = 8 /\ q.limiterErr = "" -> "rate-exceeded"
      [] OTHER -> "none"

\* the response of each outcome class
ClassResponse(class) ==
    CASE class \in {"missing-credential", "invalid-credential"}
           -> [status |-> StatusUnauthorized, body |-> "Unauthorized",
               challenge |-> "Bearer realm=\"api\""]
      [] class = "forbidden"
           -> [status |-> StatusForbidden, body |-> "Forbidden", challenge |-> ""]
      [] class = "rate-exceeded"
           -> [status |-> StatusTooManyRequests, body |-> "Too Many Requests",
               challenge |-> ""]
      [] class = "infrastructure-failure"
           -> [status |-> StatusInternalServerError, body |-> "Rate limiter error",
               challenge |-> ""]

Verifiable(ks, tokenString) ==
    LET j == Decode(tokenString)
    IN /\ ks.DefaultKey # "" /\ ks.ExpectedAlg # ""
       /\ j # Malformed
       /\ j.alg = ks.ExpectedAlg
       /\ j.signedWith = ks.DefaultKey
       /\ j.claims.hasExp
       /\ j.claims.APIKey # <<>>

\* C28: Verifier.Parse returns claims only when a verification key and an
\* expected algorithm are configured, the token's algorithm equals the
\* configured one, the signature validates against the configured key, an
\* expiry claim is present and the API-key claim is non-empty; in every other
\* case it returns an error and no claims
C28_ParseReturnsVerifiedClaims ==
    \A i \in 1..Len(trace) :
        LET c == trace[i]
        IN /\ c.err = "" <=> ~c.claims.nil
           /\ c.err = ""
                => /\ Verifiable(c.ks, c.tokenString)
                   /\ c.claims = Decode(c.tokenString).claims
           /\ ~Verifiable(c.ks, c.tokenString) => c.err # "" /\ c.claims = NilClaims

\* a verifier configured for RS256 with a public key was handed a token signed
\* HS256 with that public key as the secret: an error and no claims
C28_Witness ==
    /\ trace # <<>>
    /\ trace[1].ks = [ExpectedAlg |-> "RS256", DefaultKey |-> "pubkey"]
    /\ Decode(trace[1].tokenString).alg = "HS256"
    /\ Decode(trace[1].tokenString).signedWith = "pubkey"
    /\ trace[1].err = "signing method is invalid" /\ trace[1].claims.nil

(***************************************************************************)
(* The counter store within one window: the gateway instances call Incr    *)
(* for two API keys, in any order.  trace.ran is, per counter key, the     *)
(* number of calls whose script the server ran, trace.returned the values  *)
(* the calls returned without error, in the order of the calls.            *)
(***************************************************************************)
InitIncr ==
    /\ now = 0
    /\ redis = [x \in {} |-> 0]
    /\ window = NewRateLimitWithOptions(OptionsWindow)
    /\ reqs = [r \in Slots |-> Idle]
    /\ tally = [x \in {} |-> 0]
    /\ trace = [ran |-> [k \in {K1, K2} |-> 0], returned |-> [k \in {K1, K2} |-> <<>>]]

\* s.Incr(ctx, k, window) by any instance
CallIncrSame ==
    /\ \E k \in {K1, K2}, fail \in Failures :
         LET r == Incr(redis, k, window, now, fail)
         IN /\ trace.ran[k] < MaxCalls
            /\ redis' = r.db
            /\ trace' = [ran |-> IF ServerRan(fail)
                                 THEN [trace.ran EXCEPT ![k] = @ + 1]
                                 ELSE trace.ran,
                         returned |-> IF r.err = ""
                                      THEN [trace.returned EXCEPT ![k] = Append(@, r.v)]
                                      ELSE trace.returned]
    /\ UNCHANGED <<now, window, reqs, tally>>

NextIncr == CallIncrSame

SpecIncr == InitIncr /\ [][NextIncr]_vars

\* the stored count of API key k in the window; 0 when there is no counter
Stored(k) == CounterOf(redis, k, now)

\* C30: Incr returns the post-increment count with no lost updates: the calls
\* on one (key, window), from any instance and in any order, return different
\* values; when the server ran k of them the stored count is k, and when
\* every reply arrived the values returned are exactly 1, 2, ..., k, each
\* once; a reply that is lost takes its value with it
C30_NoLostUpdates ==
    \A ak \in {K1, K2} :
        LET k == trace.ran[ak]
            vs == trace.returned[ak]
        IN /\ \A i, j \in 1..Len(vs) : i < j => vs[i] < vs[j]
           /\ \A i \in 1..Len(vs) : vs[i] \in 1..k
           /\ Len(vs) = k => vs = [i \in 1..k |-> i]
           /\ Stored(ak) = k

\* MaxCalls calls on one counter all returned: 1, 2, ..., and the counter
\* stands at MaxCalls, while of two calls on the other key the first lost its
\* reply and the second returned 2
C30_Witness ==
    /\ trace.ran[K1] = MaxCalls
    /\ trace.returned[K1] = [i \in 1..MaxCalls |-> i]
    /\ Stored(K1) = MaxCalls
    /\ trace.ran[K2] = 2 /\ trace.returned[K2] = <<2>>

\* client r makes the Del of its GetToken in this step
DelStepOf(r) == reqs[r].pc = "del" /\ reqs'[r].pc = "idle"

\* this step is a call of GetToken up to its expiry test
GetTokenStep ==
    /\ now' = now /\ \A r \in Slots : ~DelStepOf(r)
    /\ trace' # <<>> /\ trace'[1].op = "GetToken"

\* C31: GetToken changes the store only when it finds an expired record: the
\* call itself writes nothing; it goes on to a Del exactly when its result is
\* Expired; that Del, whose error is ignored and leaves the result as it was,
\* removes the key looked up or nothing, and no other record
C31_GetTokenWritesOnlyOnExpired ==
    [][/\ GetTokenStep
          => /\ redis' = redis
             /\ \A r \in Slots :
                  (reqs[r].pc = "idle" /\ reqs'[r].pc = "del")
                  => trace'[1].err = "ErrExpired"
             /\ trace'[1].err = "ErrExpired"
                  => \E r \in Slots : reqs[r].pc = "idle" /\ reqs'[r].pc = "del"
             /\ trace'[1].err = "ErrExpired"
                  => /\ trace'[1].fail = "none"
                     /\ decodeToken(K1, trace'[1].stored).err = ""
                     /\ decodeToken(K1, trace'[1].stored).t.ExpiresAt <= now
       /\ (\E r \in Slots : DelStepOf(r))
          => /\ redis' \in {redis, Del(redis, key(K1))}
             /\ trace' = trace]_vars

\* GetToken found the provisioned record expired and made its Del: the key is
\* gone, the record of the other API key is still there
C31_Witness ==
    /\ trace # <<>> /\ trace[1].op = "GetToken" /\ trace[1].err = "ErrExpired"
    /\ FieldCount(trace[1].stored) > 0
    /\ \A r \in Slots : reqs[r].pc = "idle"
    /\ ~Exists(redis, key(K1))
    /\ redis = Bystander

\* the stored rate limit is missing, is no number or is <= 0
BadRateLimit(m) ==
    \/ m["rate_limit"] = <<>>
    \/ ~Atoi(m["rate_limit"]).ok
    \/ Atoi(m["rate_limit"]).n <= 0

\* the stored expiry is missing or is no RFC3339 time
BadExpiry(m) == m["expires_at"] = <<>> \/ ~ParseRFC3339(m["expires_at"]).ok

\* C32: GetToken classifies its failures: when Redis answers, it returns
\* NotFound exactly when no record is stored under the key, and Invalid when a
\* record is stored whose rate limit or expiry is missing or unparseable or
\* whose rate limit is <= 0; a record it returns has the rate limit and the
\* expiry that are stored
C32_FailuresClassified ==
    \A i \in 1..Len(trace) :
        LET c == trace[i]
        IN c.op = "GetToken"
           => /\ c.err = "ErrNotFound" => (c.fail = "none" /\ FieldCount(c.stored) = 0)
              /\ (c.fail = "none" /\ FieldCount(c.stored) = 0) => c.err = "ErrNotFound"
              /\ (c.fail = "none" /\ FieldCount(c.stored) > 0
                    /\ (BadRateLimit(c.stored) \/ BadExpiry(c.stored)))
                   => c.err = "ErrInvalid"
              /\ c.err = ""
                   => /\ ~BadRateLimit(c.stored) /\ ~BadExpiry(c.stored)
                      /\ c.t.RateLimit = Atoi(c.stored["rate_limit"]).n
                      /\ c.t.ExpiresAt = ParseRFC3339(c.stored["expires_at"]).t
              /\ c.err # "" => c.t = ZeroToken

\* GetToken read a record with a good rate limit and no expires_at field:
\* Invalid, and the record is still stored
C32_Witness ==
    /\ trace # <<>> /\ trace[1].op = "GetToken" /\ trace[1].fail = "none"
    /\ ~BadRateLimit(trace[1].stored) /\ trace[1].stored["expires_at"] = <<>>
    /\ trace[1].err = "ErrInvalid"
    /\ HGetAll(redis, key(K1)) = trace[1].stored

(***************************************************************************)
(* One gateway instance serving its requests one after the other: every    *)
(* step is a whole run of Handler, from the Authorization header to the    *)
(* response, against the Redis the earlier requests left.  trace[1] is the *)
(* last request served: its header and path, the rate-limit hint of its    *)
(* claims, the response and the call made to the limiter.                  *)
(***************************************************************************)
NoLimiterCall == [made |-> FALSE, key |-> <<>>, limit |-> 0]

\* AfterParse taking the limit from the claims when they carry one
AfterParseHinted(db, w, claims, path, t, rfail, down, lfail) ==
    LET c == LocalChecks(claims, path, t)
        g == GetTokenRead(db, claims.APIKey, t, rfail)
        db1 == IF g.del /\ ~down THEN Del(db, key(claims.APIKey)) ELSE db
        o == TokenOutcome(g.err, g.t)
        limit == IF claims.RateLimit > 0 THEN claims.RateLimit ELSE o.limit
        a == Allow(db1, w, claims.APIKey, limit, t, lfail)
        lo == LimitOutcome(a.allowed, a.err)
    IN IF ~c.pass THEN [resp |-> c.resp, db |-> db, call |-> NoLimiterCall]
       ELSE IF ~o.pass THEN [resp |-> o.resp, db |-> db1, call |-> NoLimiterCall]
       ELSE [resp |-> IF lo.pass THEN forwarded ELSE lo.resp, db |-> a.db,
             call |-> [made |-> TRUE, key |-> claims.APIKey, limit |-> limit]]

\* AfterParse testing the path against the routes of the token record too
AfterParseRecordScope(db, w, claims, path, t, rfail, down, lfail) ==
    LET c == LocalChecks(claims, path, t)
        g == GetTokenRead(db, claims.APIKey, t, rfail)
        db1 == IF g.del /\ ~down THEN Del(db, key(claims.APIKey)) ELSE db
        o == TokenOutcome(g.err, g.t)
        a == Allow(db1, w, claims.APIKey, o.limit, t, lfail)
        lo == LimitOutcome(a.allowed, a.err)
    IN IF ~c.pass THEN [resp |-> c.resp, db |-> db, call |-> NoLimiterCall]
       ELSE IF ~o.pass THEN [resp |-> o.resp, db |-> db1, call |-> NoLimiterCall]
       ELSE IF Len(g.t.AllowedRoutes.items) > 0 /\ ~isAllowedPath(path, g.t.AllowedRoutes.items)
       THEN [resp |-> httpError("Forbidden", StatusForbidden), db |-> db1,
             call |-> NoLimiterCall]
       ELSE [resp |-> IF lo.pass THEN forwarded ELSE lo.resp, db |-> a.db,
             call |-> [made |-> TRUE, key |-> claims.APIKey, limit |-> o.limit]]

\* Handler lines 86-138 on verified claims: [resp, db, call]; rfail, down and
\* lfail: how the calls of GetToken, its Del and Allow go at Redis
AfterParse(db, w, claims, path, t, rfail, down, lfail) ==
    LET c == LocalChecks(claims, path, t)
        g == GetTokenRead(db, claims.APIKey, t, rfail)
        db1 == IF g.del /\ ~down THEN Del(db, key(claims.APIKey)) ELSE db
        o == TokenOutcome(g.err, g.t)
        a == Allow(db1, w, claims.APIKey, o.limit, t, lfail)
        lo == LimitOutcome(a.allowed, a.err)
    IN IF ~c.pass THEN [resp |-> c.resp, db |-> db, call |-> NoLimiterCall]
       ELSE IF ~o.pass THEN [resp |-> o.resp, db |-> db1, call |-> NoLimiterCall]
       ELSE [resp |-> IF lo.pass THEN forwarded ELSE lo.resp, db |-> a.db,
             call |-> [made |-> TRUE, key |-> claims.APIKey, limit |-> o.limit]]

\* Handler lines 67-140, one request from its first line to its last
Serve ==
    /\ \E in \in Requests :
         \E a \in {Authenticate(in.auth, now)} :
            IF ~a.pass
            THEN /\ redis' = redis
                 /\ trace' = <<[auth |-> in.auth, path |-> in.path, at |-> now,
                                hint |-> a.claims.RateLimit,
                                resp |-> a.resp, call |-> NoLimiterCall]>>
            ELSE /\ CounterOf(redis, a.claims.APIKey, now) < MaxCount
                 /\ \E rfail \in ReadFailures, down \in BOOLEAN, lfail \in Failures :
                      \E res \in {AfterParse(redis, window, a.claims, in.path, now,
                                              rfail, down, lfail)} :
                         /\ redis' = res.db
                         /\ trace' = <<[auth |-> in.auth, path |-> in.path, at |-> now,
                                        hint |-> a.claims.RateLimit,
                                        resp |-> res.resp, call |-> res.call]>>
    /\ UNCHANGED <<now, window, reqs, tally>>

NextServe ==
    \/ Serve
    \/ Advance

SpecServe == Init /\ [][NextServe]_vars

\* the rate-limit hints a signed token may carry
Hints == 0..(MaxLimit + 1)

\* C33: the limit enforced for a request is the rate limit of the stored token
\* record and the key counted is the claim's API key; the rate-limit hint of
\* the signed claims never influences the call to the limiter or the outcome:
\* in every state, however the calls to Redis go, a request and the same
\* request with any other hint get the same response, make the same call to
\* the limiter and leave the same Redis
C33_HintNeverUsed ==
    \A in \in Requests, rfail \in ReadFailures, down \in BOOLEAN, lfail \in Failures :
        LET a == Authenticate(in.auth, now)
            one == AfterParse(redis, window, a.claims, in.path, now, rfail, down, lfail)
        IN a.pass
           => /\ one.call.made
                   => /\ one.call.key = a.claims.APIKey
                      /\ one.call.limit = Atoi(HGetAll(redis, key(a.claims.APIKey))["rate_limit"]).n
              /\ \A h \in Hints :
                   AfterParse(redis, window, [a.claims EXCEPT !.RateLimit = h],
                              in.path, now, rfail, down, lfail) = one

\* a request whose claims carry the hint 7 was answered 429 on the second call
\* of its window, under the limit 1 of its record
C33_Witness ==
    /\ trace # <<>> /\ trace[1].hint = 7
    /\ trace[1].call = [made |-> TRUE, key |-> K1, limit |-> 1]
    /\ trace[1].resp.status = StatusTooManyRequests
    /\ CounterOf(redis, K1, now) = 2

\* the allowed routes a token record may hold: none, an empty list, a route
\* that matches no path of Requests, and patterns that match some of them
RouteLists ==
    {NilSlice, Slice(<<>>), Slice(<<<<"/", "c">>>>), Slice(<<<<"/", "a">>>>),
     Slice(<<<<"/", "b">>, <<"/", "a", "/", "*">>>>)}

\* the Redis in which the record of apiKey, if there is one, holds the routes rs
WithRoutes(db, apiKey, rs) ==
    IF Exists(db, key(apiKey))
    THEN [db EXCEPT ![key(apiKey)].h["allowed_routes"] = MarshalRoutes(rs)]
    ELSE db

\* C34: path scope is decided from the claim's allowed-route patterns only;
\* the allowed routes stored in the token record are never consulted: in every
\* state, however the calls to Redis go, a request gets the same response and
\* makes the same call to the limiter whatever list of routes its token record
\* holds, and leaves the same Redis but for that list
C34_RecordRoutesNeverConsulted ==
    \A in \in Requests, rfail \in ReadFailures, down \in BOOLEAN, lfail \in Failures :
        LET a == Authenticate(in.auth, now)
            k == a.claims.APIKey
            one == AfterParse(redis, window, a.claims, in.path, now, rfail, down, lfail)
        IN a.pass
           => \A rs \in RouteLists :
                 LET two == AfterParse(WithRoutes(redis, k, rs), window, a.claims, in.path,
                                       now, rfail, down, lfail)
                 IN /\ two.resp = one.resp
                    /\ two.call = one.call
                    /\ two.db = WithRoutes(one.db, k, rs)

\* a request for /a was forwarded although the record of its API key allows
\* /b only, its claims carrying no route
C34_Witness ==
    /\ trace # <<>> /\ trace[1].path = <<"/", "a">> /\ trace[1].call.made
    /\ trace[1].call.key = K1 /\ trace[1].resp = forwarded
    /\ decodeToken(K1, HGetAll(redis, key(K1))).t.AllowedRoutes = Slice(<<<<"/", "b">>>>)
    /\ ~isAllowedPath(trace[1].path, <<<<"/", "b">>>>)

\* the counter of every window that was begun and that the clock still maps
\* to is in Redis
CurrentCounterKept ==
    \A k \in {K1, K2} :
        counterKey(k, window, now) \in DOMAIN trace.first
        => Exists(redis, counterKey(k, window, now))

\* while the clock stays in a window its count does not drop, and a call that
\* returns a value returns the count it found plus one, which is then stored
CountGrows ==
    /\ \A k \in {K1, K2} :
          LET ck == counterKey(k, window, now)
          IN (Exists(redis, ck) /\ counterKey(k, window, now') = ck)
             => /\ Exists(redis', ck)
                /\ redis'[ck].n >= redis[ck].n
    /\ (now' = now /\ trace'.last.err = "")
          => /\ trace'.last.v = CounterOf(redis, trace'.last.key, now) + 1
             /\ CounterOf(redis', trace'.last.key, now) = trace'.last.v

\* C35: a rate counter never expires before its window ends: its expiry is
\* window + 1000 ms after the first increment, which is not before the window
\* start, so the count of a (key, window) never drops or restarts at 1 while
\* requests still map to that window, and it is strictly increasing over the
\* increments of that window
C35_CounterOutlivesWindow ==
    /\ []CurrentCounterKept
    /\ [][CountGrows]_vars

\* a counter created half a second into its window is incremented again at
\* the first reading of the next window, which finds the old counter still
\* stored and starts a counter of its own
C35_Witness ==
    \E sk \in DOMAIN trace.first :
        /\ trace.first[sk] = HalfTick
        /\ now = 2 * HalfTick
        /\ Exists(redis, sk) /\ redis[sk].n = 2
        /\ sk # counterKey(K1, window, now)
        /\ trace.last.key = K1 /\ trace.last.at = now /\ trace.last.v = 1
        /\ redis[counterKey(K1, window, now)].n = 1

\* call i was denied: Allow returned false and no error
Denied(i) == trace[i].err = "" /\ ~trace[i].allowed

\* C36: denied requests still count: once Allow has answered a key with limit
\* L in a window with allowed = false (and no error), every later Allow for
\* that key with that limit in that window returns allowed = false too; the
\* denied call incremented the counter like an allowed one
C36_DeniedStaysDenied ==
    \A i \in 1..Len(trace) :
        Denied(i)
        => /\ trace[i].counted
           /\ \A j \in (i + 1)..Len(trace) :
                 (/\ trace[j].apiKey = trace[i].apiKey
                  /\ trace[j].limit = trace[i].limit
                  /\ trace[j].ws = trace[i].ws)
                 => ~trace[j].allowed

\* under a limit of 1 the second and the third call of a window were denied,
\* and the counter stands at 3
C36_Witness ==
    /\ Len(trace) >= 3
    /\ \A i \in 1..3 : /\ trace[i].apiKey = K1 /\ trace[i].limit = 1
                         /\ trace[i].ws = trace[1].ws /\ trace[i].err = ""
    /\ trace[1].allowed /\ Denied(2) /\ Denied(3)
    /\ windowStart(now, window) = trace[1].ws
    /\ CounterOf(redis, K1, now) = 3

\* the key of K1 holds a record that decodes and expires after the clock
Unexpired(db, t) ==
    /\ Exists(db, key(K1))
    /\ decodeToken(K1, HGetAll(db, key(K1))).err = ""
    /\ decodeToken(K1, HGetAll(db, key(K1))).t.ExpiresAt > t

\* C37: the lazy deletion in GetToken removes only the expired record it read:
\* under any interleaving of a GetToken that found an expired record with a
\* concurrent Upsert of the same API key, the Del of the read never removes an
\* unexpired record written by Upsert
C37_FreshRecordNeverDeleted ==
    [][((\E r \in Slots : DelStepOf(r)) /\ WrittenByUpsert /\ Unexpired(redis, now))
       => redis' = redis]_vars

\* the aligned interval of length w, counted from the epoch, that t lies in
AlignedInterval(t, w) == t \div w

\* C38: the effective counting window equals the configured window for every
\* positive window duration, also below one second or with a fraction of a
\* second: two Incr calls for one key share a counter only if their clock
\* readings lie in the same aligned interval of length window, so two calls at
\* least one window apart never share a counter
C38_WindowAsConfigured ==
    \A i \in 1..Len(trace) :
        LET c == trace[i]
        IN /\ c.sk1 = c.sk2 => AlignedInterval(c.t1, c.w) = AlignedInterval(c.t2, c.w)
           /\ (c.t2 - c.t1 >= c.w) => c.sk1 # c.sk2

(***************************************************************************)
(* One client of the token record store: at some time it calls Upsert, and *)
(* from then on GetToken for the same API key, any number of times, while  *)
(* the clock advances by half seconds.  trace[1] is the Upsert, trace[2]   *)
(* the last GetToken.                                                      *)
(***************************************************************************)
\* the records handed to Upsert, with expiries on and between whole seconds
RoundTripTokens ==
    [APIKey : {K1}, RateLimit : {0, 2},
     ExpiresAt : {Second, Second + HalfTick, 2 * Second, Later},
     AllowedRoutes : {NilSlice, Slice(<<>>), Slice(<<<<"/", "a">>>>),
                      Slice(<<<<"/", "a", "/", "*">>, <<"/", "b">>>>)}]

InitRoundTrip ==
    /\ now = 0
    /\ redis \in {Bystander,
                   HSet(Bystander, key(K1),
                        TokenFields([APIKey |-> K1, RateLimit |-> 3, ExpiresAt |-> 0,
                                     AllowedRoutes |-> NilSlice]))}
    /\ window = NewRateLimitWithOptions(OptionsWindow)
    /\ reqs = [r \in Slots |-> Idle]
    /\ tally = [x \in {} |-> 0]
    /\ trace = <<>>

\* st.Upsert(ctx, t)
CallUpsertFirst ==
    /\ trace = <<>>
    /\ \E t \in RoundTripTokens, fail \in Failures :
         LET u == Upsert(redis, t, now, fail)
         IN /\ redis' = u.db
            /\ trace' = <<[op |-> "Upsert", at |-> now, fail |-> fail, err |-> u.err,
                           t |-> t]>>
    /\ UNCHANGED <<now, window, reqs, tally>>

\* st.GetToken(ctx, "k1"), the whole call
CallGetTokenNext ==
    /\ trace # <<>>
    /\ \E fail \in ReadFailures, down \in BOOLEAN :
         LET g == GetTokenRead(redis, K1, now, fail)
         IN /\ redis' = IF g.del /\ ~down THEN Del(redis, key(K1)) ELSE redis
            /\ trace' = <<trace[1],
                          [op |-> "GetToken", at |-> now, fail |-> fail, err |-> g.err,
                           t |-> g.t]>>
    /\ UNCHANGED <<now, window, reqs, tally>>

NextRoundTrip ==
    \/ CallUpsertFirst
    \/ CallGetTokenNext
    \/ Elapse

SpecRoundTrip == InitRoundTrip /\ [][NextRoundTrip]_vars

\* the time cut to whole seconds
WholeSecond(t) == (t \div Second) * Second

\* Upsert succeeded and a GetToken that Redis answered followed it
UpsertThenGetToken ==
    /\ Len(trace) = 2 /\ trace[1].err = "" /\ trace[2].fail = "none"

\* C39 as stated: after a successful Upsert(t), a GetToken(t.APIKey) made
\* while the clock is before t.ExpiresAt returns without error a record with
\* the key looked up and the rate limit, allowed routes and expiry of t
C39_RoundTripAsStated ==
    (UpsertThenGetToken /\ trace[2].at < trace[1].t.ExpiresAt)
    => /\ trace[2].err = ""
       /\ trace[2].t = trace[1].t

\* C39: Upsert followed by GetToken round-trips to the second: after a
\* successful Upsert(t), a GetToken(t.APIKey) made while the clock is before
\* t.ExpiresAt cut to whole seconds, with no Upsert or Delete of that key in
\* between, returns without error a record with the key looked up, the rate
\* limit and allowed routes of t and the expiry of t cut to whole seconds
C39_RoundTrip ==
    (UpsertThenGetToken /\ trace[2].at < WholeSecond(trace[1].t.ExpiresAt))
    => /\ trace[2].err = ""
       /\ trace[2].t = [trace[1].t EXCEPT !.ExpiresAt = WholeSecond(@)]
       /\ trace[2].t.APIKey = K1

\* a record with two routes that expires at 1.5 s was written over a
\* provisioned one and read back half a second later with an expiry of 1 s
C39_Witness ==
    /\ UpsertThenGetToken
    /\ trace[1].t.ExpiresAt = Second + HalfTick /\ trace[1].at = 0
    /\ Len(trace[1].t.AllowedRoutes.items) = 2
    /\ trace[2].at = HalfTick /\ trace[2].err = ""
    /\ trace[2].t.ExpiresAt = Second
    /\ trace[2].t.AllowedRoutes = trace[1].t.AllowedRoutes
    /\ trace[2].t.RateLimit = trace[1].t.RateLimit

====
